---- MODULE Spec2Model ----
(***************************************************************************)
(* RTG / rth: routing tables for a static internetwork.                    *)
(*                                                                         *)
(* Ten state machines over one set of variables:                           *)
(*   Spec            the ants discovery process (sweep and find runs) over *)
(*                   an adjacency view (links) of the bounded topologies;  *)
(*   SpecTermination Spec under weak fairness, for the end of a run;       *)
(*   SpecCeiling     Spec on one subnet with 2, 100 or 101 routers;        *)
(*   SpecFilter      the path selection of filter_paths_from_hops;         *)
(*   SpecBuilder     the NetworkCreator (create_network, create_router,    *)
(*                   connect_router_to_networks);                          *)
(*   SpecAttach      connect_router_to_networks on two /30 subnets;        *)
(*   SpecAttachAny   SpecAttach with names that match no router or subnet; *)
(*   SpecExecute     Dispatcher.execute: checks, build, discovery (sweep,  *)
(*                   finds, selection);                                    *)
(*   SpecAdapter     the JSON adapter on a decoded file, or calls of       *)
(*                   set_option and execute, followed by the pipeline;     *)
(*   SpecTables      the classes used one after the other, down to the     *)
(*                   routing tables.                                       *)
(***************************************************************************)
EXTENDS Integers, Sequences, FiniteSets, TLC

VARIABLES
    \* ---- ants discovery (ants.py) ----
    links,              \* [subnets: subnet -> list of routers, routers: router -> list of subnets]
    discovery_type,     \* "sweep" | "find"
    subnet_start,
    subnet_end,         \* objective of a find run (unused by a sweep)
    pc,                 \* position in ants_discovery_process / sweep_network
    ants,               \* the list of ants
    idx,                \* position of the running "for ant in ants" loop (1-based)
    visited,            \* [subnets: list, routers: list]
    ants_at_objective,  \* list of router histories
    sweep_error,        \* what sweep_network raised: [raised, total]
    rounds,             \* iterations of "while len(ants)" entered by the running process
    \* ---- path selection (ants.py filter_paths_from_hops, utils.py) ----
    fpc,                \* "input" | "filtered"
    paths,              \* the value of hops[hop] before the filter
    options,            \* [preferred_routers: list, equitemporality: BOOLEAN]
    after_preferred,    \* v after the preferred-routers stage
    hops_out,           \* hops[hop] after the filter
    \* ---- network creator (network_creator.py) ----
    subnetworks,        \* list of subnet instances (uid = index - 1)
    routers,            \* list of router instances (uid = index - 1)
    subnets_names,
    routers_names,
    ranges,
    last_call,          \* the last builder call and how it ended
    \* ---- adapter (general_adapter.py, json_adapter.py) ----
    adapter,            \* how the Dispatcher is driven: a decoded file and the ignore flag, or calls
    \* ---- dispatcher (dispatcher.py) ----
    dispatcher_options, \* Dispatcher.__options
    last_set_option,    \* the last set_option call and how it ended
    data,               \* what execute was given: [subnetworks, routers, links]
    dpc,                \* position in Dispatcher.execute
    cursor,             \* position of the running loop of the build or of calculate_hops
    master_router,      \* AntsDiscovery.master_router
    ants_options,       \* AntsDiscovery.options
    hops,               \* AntsDiscovery.hops: dict of (s, e) -> paths
    routing_tables,     \* the routing tables, one per router: dict of destination -> entry
    raised,             \* the exception that ended execute ("" when none)
    stages,             \* the stages entered so far, in order
    runs                \* discovery runs: [sweep: started, swept: succeeded, find: started]

antsVars == <<links, discovery_type, subnet_start, subnet_end, pc, ants, idx,
              visited, ants_at_objective, sweep_error, rounds>>
filterVars == <<fpc, paths, options, after_preferred, hops_out>>
builderVars == <<subnetworks, routers, subnets_names, routers_names, ranges, last_call>>
givenVars == <<adapter, dispatcher_options, last_set_option, data>>
dispatcherVars == <<givenVars, routing_tables, dpc, cursor, master_router, ants_options, hops, raised,
                    stages, runs>>
vars == <<antsVars, filterVars, builderVars, dispatcherVars>>

(***************************************************************************)
(* Bounds of the model and constants of the program.                       *)
(***************************************************************************)
\* number of router/subnet attachments of a topology handed to the discovery
MaxLinks == 5
\* number of paths discovered for one pair that the selection is handed
MaxPaths == 3
\* number of subnets that the creation calls may store
MaxNetworks == 2
\* number of routers that the creation calls may store
MaxBuiltRouters == 2
\* number of attachments of a topology of the runs checked for termination
MaxLiveLinks == 4
\* the population ceiling of ants_discovery_process (ants.py line 379)
MaxAnts == 100

\* the uids of the topologies handed to the discovery: three subnets, three routers
SubnetIds == {0, 1, 2}
RouterIds == {0, 1, 2}

(***************************************************************************)
(* Lists.                                                                  *)
(***************************************************************************)
Range(s) == {s[i] : i \in 1 .. Len(s)}

InList(x, s) == \E i \in 1 .. Len(s) : s[i] = x

NoDuplicates(s) == \A i, j \in 1 .. Len(s) : i # j => s[i] # s[j]

\* s[:-1]
ButLast(s) == IF Len(s) = 0 THEN <<>> ELSE SubSeq(s, 1, Len(s) - 1)

\* [x for x in s if Keep(x)] is SelectSeq; every ordering of a finite set:
RECURSIVE Orders(_)
Orders(T) ==
    IF T = {} THEN {<<>>}
    ELSE UNION {{<<x>> \o o : o \in Orders(T \ {x})} : x \in T}

(***************************************************************************)
(* Topologies: the adjacency view of prepare_matrix_and_links.  A dict's   *)
(* keys() keeps insertion order, and attachments can be made in any order, *)
(* so each node's neighbours come in any order.                            *)
(***************************************************************************)
Attachments == {E \in SUBSET (SubnetIds \X RouterIds) : Cardinality(E) <= MaxLinks}

RECURSIVE SubnetViews(_, _)
SubnetViews(E, n) ==
    IF n = 0 THEN {<<>>}
    ELSE {v \o <<o>> : v \in SubnetViews(E, n - 1),
                       o \in Orders({r \in RouterIds : <<n - 1, r>> \in E})}

RECURSIVE RouterViews(_, _)
RouterViews(E, n) ==
    IF n = 0 THEN {<<>>}
    ELSE {v \o <<o>> : v \in RouterViews(E, n - 1),
                       o \in Orders({s \in SubnetIds : <<s, n - 1>> \in E})}

prepare_matrix_and_links(sv, rv) ==
    [subnets |-> [s \in 0 .. Len(sv) - 1 |-> sv[s + 1]],
     routers |-> [r \in 0 .. Len(rv) - 1 |-> rv[r + 1]]]

\* the matrix of ordered pairs (start, end), start # end
subnets_table == {<<s, e>> \in SubnetIds \X SubnetIds : s # e}

(***************************************************************************)
(* Ants (class Ant, SweepAnt, FindAnt).                                    *)
(***************************************************************************)
\* Ant.__init__: the history starts with the position
NewAnt(state, router, subnet) ==
    [state |-> state, router |-> router, subnet |-> subnet,
     history |-> [subnets |-> <<subnet>>, routers |-> <<router>>]]

\* Ant.next_hop_type; "error" stands for the raised Exception
next_hop_type(history) ==
    IF Len(history.subnets) > Len(history.routers) THEN "router"
    ELSE IF Len(history.subnets) = Len(history.routers) THEN "subnet"
    ELSE "error"

\* a move that changes the position and leaves the history as it was
move_to_unrecorded(ant, pos) ==
    IF next_hop_type(ant.history) = "router"
    THEN [ant EXCEPT !.router = pos]
    ELSE [ant EXCEPT !.subnet = pos]

\* Ant.move_to
move_to(ant, pos) ==
    IF next_hop_type(ant.history) = "router"
    THEN [ant EXCEPT !.router = pos,
                     !.history.routers = Append(@, pos)]
    ELSE [ant EXCEPT !.subnet = pos,
                     !.history.subnets = Append(@, pos)]

\* a child that keeps the whole router history of its parent: the shared router twice
feed_history_whole(own, type_at, hist) ==
    [routers |-> hist.routers \o own.routers,
     subnets |-> hist.subnets \o own.subnets]

\* Ant.feed_history: the history of the parent is put in front of the own one
feed_history(own, type_at, hist) ==
    IF type_at = "routers"
    THEN [routers |-> ButLast(hist.routers) \o own.routers,
          subnets |-> hist.subnets \o own.subnets]
    ELSE [routers |-> hist.routers \o own.routers,
          subnets |-> ButLast(hist.subnets) \o own.subnets]

HistoryOf(hop_type, history) ==
    IF hop_type = "router" THEN history.routers ELSE history.subnets

\* SweepAnt.check_next_move
sweep_check_next_move(ant, next_) ==
    ~InList(next_, HistoryOf(next_hop_type(ant.history), ant.history))

\* a check that never recognises the objective
find_check_next_move_blind(ant, next_, objective) ==
    IF ~InList(next_, HistoryOf(next_hop_type(ant.history), ant.history))
    THEN <<TRUE, FALSE>>
    ELSE <<FALSE, FALSE>>

\* FindAnt.check_next_move: the pair [may move, is the objective]
find_check_next_move(ant, next_, objective) ==
    IF ~InList(next_, HistoryOf(next_hop_type(ant.history), ant.history))
    THEN IF next_hop_type(ant.history) = "subnet" /\ next_ = objective
         THEN <<TRUE, TRUE>>
         ELSE <<TRUE, FALSE>>
    ELSE <<FALSE, FALSE>>

\* activate_ants: every Waiting ant becomes Alive
\* an activation that leaves the waiting ants waiting
activate_ants_none(list) == list

activate_ants(list) ==
    [i \in 1 .. Len(list) |->
        IF list[i].state = "Waiting" THEN [list[i] EXCEPT !.state = "Alive"]
        ELSE list[i]]

not_visited(type_, pos) == ~InList(pos, visited[type_])

\* a candidate list that keeps only the first not yet visited subnet
subnets_at_pos_first(ant) ==
    LET all == SelectSeq(links.routers[ant.router], LAMBDA s_ : not_visited("subnets", s_))
    IN  IF Len(all) = 0 THEN all ELSE <<all[1]>>

\* [s_ for s_ in routers[ant.router] if not_visited('subnets', s_)]
subnets_at_pos(ant) ==
    SelectSeq(links.routers[ant.router], LAMBDA s_ : not_visited("subnets", s_))

\* a candidate list that forgets the visited routers
routers_at_pos_all(ant) == links.subnets[ant.subnet]

\* [r for r in subnets[ant.subnet] if not_visited('routers', r)]
routers_at_pos(ant) ==
    SelectSeq(links.subnets[ant.subnet], LAMBDA r : not_visited("routers", r))

(***************************************************************************)
(* Initial states.                                                         *)
(***************************************************************************)
NoAntsRun ==
    /\ links = [subnets |-> <<>>, routers |-> <<>>]
    /\ discovery_type = "none"
    /\ subnet_start = 0
    /\ subnet_end = 0
    /\ pc = "off"
    /\ ants = <<>>
    /\ idx = 0
    /\ visited = [subnets |-> <<>>, routers |-> <<>>]
    /\ ants_at_objective = <<>>
    /\ sweep_error = [raised |-> FALSE, total |-> 0]
    /\ rounds = 0

NoFilterRun ==
    /\ fpc = "off"
    /\ paths = <<>>
    /\ options = [preferred_routers |-> <<>>, equitemporality |-> FALSE]
    /\ after_preferred = <<>>
    /\ hops_out = <<>>

NoBuilderRun ==
    /\ subnetworks = <<>>
    /\ routers = <<>>
    /\ subnets_names = <<>>
    /\ routers_names = <<>>
    /\ ranges = <<>>
    /\ last_call = [op |-> "none", result |-> "ok", current |-> <<>>, returned |-> -1]

\* Python values, as far as the options and the checks tell them apart: None, a
\* string, a list of names, a dict, a class
None == [kind |-> "NoneType", items |-> <<>>]

\* the three parts of the data of execute are dicts whose values have the types
\* that __checks asks for
WellFormed == [subnetworks |-> "ok", routers |-> "ok", links |-> "ok"]

\* no execute call is running
NoDispatcherRun ==
    /\ adapter = [via |-> "none"]
    /\ dispatcher_options = [preferred_routers |-> None]
    /\ last_set_option = [option |-> "", value |-> None, result |-> "none"]
    /\ data = [subnetworks |-> <<>>, routers |-> <<>>, links |-> <<>>, form |-> WellFormed]
    /\ dpc = "off"
    /\ cursor = 0
    /\ master_router = 0
    /\ ants_options = [kind |-> "none"]
    /\ hops = <<>>
    /\ routing_tables = <<>>
    /\ raised = ""
    /\ stages = <<>>
    /\ runs = [sweep |-> 0, swept |-> 0, find |-> 0]

\* A discovery run is about to start: a topology, a kind of run and its subnets.
\* A find run is one entry of the matrix; a sweep has no objective.
AntsInitOver(topologies) ==
    /\ \E E \in topologies :
         \E sv \in SubnetViews(E, Cardinality(SubnetIds)),
               rv \in RouterViews(E, Cardinality(RouterIds)) :
            links = prepare_matrix_and_links(sv, rv)
    /\ discovery_type \in {"sweep", "find"}
    /\ subnet_start \in SubnetIds
    /\ subnet_end \in SubnetIds
    /\ IF discovery_type = "find" THEN <<subnet_start, subnet_end>> \in subnets_table
       ELSE subnet_end = subnet_start
    /\ pc = "init"
    /\ ants = <<>>
    /\ idx = 0
    /\ visited = [subnets |-> <<>>, routers |-> <<>>]
    /\ ants_at_objective = <<>>
    /\ sweep_error = [raised |-> FALSE, total |-> 0]
    /\ rounds = 0

AntsInit == AntsInitOver(Attachments)

Init == AntsInit /\ NoFilterRun /\ NoBuilderRun /\ NoDispatcherRun

(***************************************************************************)
(* ants_discovery_process.                                                 *)
(***************************************************************************)
\* INIT: one Alive ant per router of the starting subnet
StartDiscovery ==
    /\ pc = "init"
    /\ ants' = [i \in 1 .. Len(links.subnets[subnet_start]) |->
                  NewAnt("Alive", links.subnets[subnet_start][i], subnet_start)]
    /\ visited' = [subnets |-> <<subnet_start>>,
                   routers |-> links.subnets[subnet_start]]
    /\ pc' = "round"
    /\ UNCHANGED <<rounds, links, discovery_type, subnet_start, subnet_end, idx,
                   ants_at_objective, sweep_error>>
    /\ UNCHANGED <<filterVars, builderVars, dispatcherVars>>

\* while len(ants): the ceiling, then the activation that opens phase 1
RoundStart ==
    /\ pc = "round"
    /\ Len(ants) > 0
    /\ IF Len(ants) > MaxAnts
       THEN /\ pc' = "recursion_error"
            /\ UNCHANGED <<ants, idx, rounds>>
       ELSE /\ ants' = activate_ants(ants)
            /\ idx' = 1
            /\ rounds' = rounds + 1
            /\ pc' = "phase1"
    /\ UNCHANGED <<links, discovery_type, subnet_start, subnet_end, visited,
                   ants_at_objective, sweep_error>>
    /\ UNCHANGED <<filterVars, builderVars, dispatcherVars>>

\* "if not ant.alive: continue" of either phase
SkipAnt ==
    /\ pc \in {"phase1", "phase2"}
    /\ idx <= Len(ants)
    /\ ants[idx].state # "Alive"
    /\ idx' = idx + 1
    /\ UNCHANGED <<rounds, links, discovery_type, subnet_start, subnet_end, pc, ants,
                   visited, ants_at_objective, sweep_error>>
    /\ UNCHANGED <<filterVars, builderVars, dispatcherVars>>

\* 1.1 with no subnet left: the ant dies
HopSubnetNone ==
    /\ pc = "phase1"
    /\ idx <= Len(ants)
    /\ ants[idx].state = "Alive"
    /\ Len(subnets_at_pos(ants[idx])) = 0
    /\ ants' = [ants EXCEPT ![idx].state = "Dead"]
    /\ idx' = idx + 1
    /\ UNCHANGED <<rounds, links, discovery_type, subnet_start, subnet_end, pc, visited,
                   ants_at_objective, sweep_error>>
    /\ UNCHANGED <<filterVars, builderVars, dispatcherVars>>

\* 1.1 with one subnet left
HopSubnetOne ==
    /\ pc = "phase1"
    /\ idx <= Len(ants)
    /\ ants[idx].state = "Alive"
    /\ Len(subnets_at_pos(ants[idx])) = 1
    /\ LET ant == ants[idx]
           next_ == subnets_at_pos(ant)[1]
           check == find_check_next_move(ant, next_, subnet_end)
       IN  IF discovery_type = "sweep"
           THEN IF sweep_check_next_move(ant, next_)
                THEN /\ ants' = [ants EXCEPT ![idx] = move_to(ant, next_)]
                     /\ visited' = [visited EXCEPT !.subnets = Append(@, next_)]
                     /\ UNCHANGED ants_at_objective
                ELSE /\ ants' = [ants EXCEPT ![idx].state = "Dead"]
                     /\ UNCHANGED <<visited, ants_at_objective>>
           ELSE IF check[1] /\ check[2]
                THEN /\ ants_at_objective' = Append(ants_at_objective, ant.history.routers)
                     /\ ants' = [ants EXCEPT ![idx].state = "Dead"]
                     /\ UNCHANGED visited
                ELSE IF check[1]
                THEN /\ ants' = [ants EXCEPT ![idx] = move_to(ant, next_)]
                     /\ visited' = [visited EXCEPT !.subnets = Append(@, next_)]
                     /\ UNCHANGED ants_at_objective
                ELSE /\ ants' = [ants EXCEPT ![idx].state = "Dead"]
                     /\ UNCHANGED <<visited, ants_at_objective>>
    /\ idx' = idx + 1
    /\ UNCHANGED <<rounds, links, discovery_type, subnet_start, subnet_end, pc, sweep_error>>
    /\ UNCHANGED <<filterVars, builderVars, dispatcherVars>>

\* children of 1.2 that are born alive
SubnetChildren_alive(ant, cands) ==
    [i \in 1 .. Len(cands) |->
        LET new_ant == NewAnt("Alive", ant.router, cands[i])
        IN  [new_ant EXCEPT !.history = feed_history(new_ant.history, "routers", ant.history)]]

\* the children of 1.2, one per candidate subnet, in the order of the candidates;
\* a find child born on the objective is dead at birth
SubnetChildren(ant, cands) ==
    [i \in 1 .. Len(cands) |->
        LET new_ant == NewAnt("Waiting", ant.router, cands[i])
            fed == [new_ant EXCEPT !.history = feed_history(new_ant.history, "routers", ant.history)]
        IN  IF discovery_type = "find" /\ fed.subnet = subnet_end
            THEN [fed EXCEPT !.state = "Dead"]
            ELSE fed]

\* births that record nothing
SubnetChildrenAtObjective_none(ant, cands) == <<>>

\* the histories that the children born on the objective record
SubnetChildrenAtObjective(ant, cands) ==
    LET born == SubnetChildren(ant, cands)
        onObjective == SelectSeq(born, LAMBDA a : discovery_type = "find" /\ a.subnet = subnet_end)
    IN  [i \in 1 .. Len(onObjective) |-> onObjective[i].history.routers]

\* 1.2 with several subnets left: the ant dies and gives birth
HopSubnetSeveral ==
    /\ pc = "phase1"
    /\ idx <= Len(ants)
    /\ ants[idx].state = "Alive"
    /\ Len(subnets_at_pos(ants[idx])) > 1
    /\ LET ant == ants[idx]
           cands == subnets_at_pos(ant)
       IN  /\ ants' = [ants EXCEPT ![idx].state = "Dead"] \o SubnetChildren(ant, cands)
           /\ visited' = [visited EXCEPT !.subnets = @ \o cands]
           /\ ants_at_objective' = ants_at_objective \o SubnetChildrenAtObjective(ant, cands)
    /\ idx' = idx + 1
    /\ UNCHANGED <<rounds, links, discovery_type, subnet_start, subnet_end, pc, sweep_error>>
    /\ UNCHANGED <<filterVars, builderVars, dispatcherVars>>

\* the end of the phase 1 loop and the activation that opens phase 2
EndPhase1 ==
    /\ pc = "phase1"
    /\ idx > Len(ants)
    /\ ants' = activate_ants(ants)
    /\ idx' = 1
    /\ pc' = "phase2"
    /\ UNCHANGED <<rounds, links, discovery_type, subnet_start, subnet_end, visited,
                   ants_at_objective, sweep_error>>
    /\ UNCHANGED <<filterVars, builderVars, dispatcherVars>>

\* 2.1 with no router left: the ant dies
HopRouterNone ==
    /\ pc = "phase2"
    /\ idx <= Len(ants)
    /\ ants[idx].state = "Alive"
    /\ Len(routers_at_pos(ants[idx])) = 0
    /\ ants' = [ants EXCEPT ![idx].state = "Dead"]
    /\ idx' = idx + 1
    /\ UNCHANGED <<rounds, links, discovery_type, subnet_start, subnet_end, pc, visited,
                   ants_at_objective, sweep_error>>
    /\ UNCHANGED <<filterVars, builderVars, dispatcherVars>>

\* 2.1 with one router left
HopRouterOne ==
    /\ pc = "phase2"
    /\ idx <= Len(ants)
    /\ ants[idx].state = "Alive"
    /\ Len(routers_at_pos(ants[idx])) = 1
    /\ LET ant == ants[idx]
           next_ == routers_at_pos(ant)[1]
           may == IF discovery_type = "sweep" THEN sweep_check_next_move(ant, next_)
                  ELSE find_check_next_move(ant, next_, subnet_end)[1]
       IN  IF may
           THEN /\ ants' = [ants EXCEPT ![idx] = move_to(ant, next_)]
                /\ visited' = [visited EXCEPT !.routers = Append(@, next_)]
           ELSE /\ ants' = [ants EXCEPT ![idx].state = "Dead"]
                /\ UNCHANGED visited
    /\ idx' = idx + 1
    /\ UNCHANGED <<rounds, links, discovery_type, subnet_start, subnet_end, pc,
                   ants_at_objective, sweep_error>>
    /\ UNCHANGED <<filterVars, builderVars, dispatcherVars>>

\* children of 2.2 that are not fed the history of their parent
RouterChildren_unfed(ant, cands) ==
    [i \in 1 .. Len(cands) |-> NewAnt("Waiting", cands[i], ant.subnet)]

\* the children of 2.2, one per candidate router
RouterChildren(ant, cands) ==
    [i \in 1 .. Len(cands) |->
        LET new_ant == NewAnt("Waiting", cands[i], ant.subnet)
        IN  [new_ant EXCEPT !.history = feed_history(new_ant.history, "subnets", ant.history)]]

\* 2.2 with several routers left: the ant dies and gives birth
HopRouterSeveral ==
    /\ pc = "phase2"
    /\ idx <= Len(ants)
    /\ ants[idx].state = "Alive"
    /\ Len(routers_at_pos(ants[idx])) > 1
    /\ LET ant == ants[idx]
           cands == routers_at_pos(ant)
       IN  /\ ants' = [ants EXCEPT ![idx].state = "Dead"] \o RouterChildren(ant, cands)
           /\ visited' = [visited EXCEPT !.routers = @ \o cands]
    /\ idx' = idx + 1
    /\ UNCHANGED <<rounds, links, discovery_type, subnet_start, subnet_end, pc,
                   ants_at_objective, sweep_error>>
    /\ UNCHANGED <<filterVars, builderVars, dispatcherVars>>

\* a cleaning that leaves the dead ants in the list
remove_dead_none(list) == list

\* "if ants[i].dead: ants.remove(ants[i])" over the whole list
remove_dead(list) == SelectSeq(list, LAMBDA a : a.state # "Dead")

\* 3. the end of the phase 2 loop and the removal of the dead ants
CleanUp ==
    /\ pc = "phase2"
    /\ idx > Len(ants)
    /\ ants' = remove_dead(ants)
    /\ idx' = 0
    /\ pc' = "round"
    /\ UNCHANGED <<rounds, links, discovery_type, subnet_start, subnet_end, visited,
                   ants_at_objective, sweep_error>>
    /\ UNCHANGED <<filterVars, builderVars, dispatcherVars>>

\* RESULT: no ant is left, the process returns visited and ants_at_objective
Return ==
    /\ pc = "round"
    /\ Len(ants) = 0
    /\ pc' = "returned"
    /\ UNCHANGED <<rounds, links, discovery_type, subnet_start, subnet_end, ants, idx, visited,
                   ants_at_objective, sweep_error>>
    /\ UNCHANGED <<filterVars, builderVars, dispatcherVars>>

(***************************************************************************)
(* sweep_network: the check of the sweep's result.                         *)
(***************************************************************************)
\* a total that counts the visited routers instead of the visited subnets
sweep_total_routers(result) == Cardinality(DOMAIN links.subnets) - Len(result.routers)

\* total = len(self.subnets) - len(result['subnets'])
sweep_total(result) == Cardinality(DOMAIN links.subnets) - Len(result.subnets)

\* for subnet in self.subnets: if subnet not in result['subnets']: raise
sweep_network ==
    /\ pc = "returned"
    /\ discovery_type = "sweep"
    /\ sweep_error' =
         IF \E subnet \in DOMAIN links.subnets : ~InList(subnet, visited.subnets)
         THEN [raised |-> TRUE, total |-> sweep_total(visited)]
         ELSE [raised |-> FALSE, total |-> 0]
    /\ pc' = "swept"
    /\ UNCHANGED <<rounds, links, discovery_type, subnet_start, subnet_end, ants, idx, visited,
                   ants_at_objective>>
    /\ UNCHANGED <<filterVars, builderVars, dispatcherVars>>

Next ==
    \/ StartDiscovery
    \/ RoundStart
    \/ SkipAnt
    \/ HopSubnetNone
    \/ HopSubnetOne
    \/ HopSubnetSeveral
    \/ EndPhase1
    \/ HopRouterNone
    \/ HopRouterOne
    \/ HopRouterSeveral
    \/ CleanUp
    \/ Return
    \/ sweep_network

Spec == Init /\ [][Next]_vars

(***************************************************************************)
(* What the topology holds, stated without the ants.                       *)
(***************************************************************************)
Attached(s, r) == InList(r, links.subnets[s]) /\ InList(s, links.routers[r])

\* the subnets one router away from a subnet of X
OneRouterAway(X) ==
    X \cup {s \in SubnetIds : \E t \in X, r \in RouterIds : Attached(t, r) /\ Attached(s, r)}

RECURSIVE ConnectedSubnets(_)
ConnectedSubnets(X) ==
    IF OneRouterAway(X) = X THEN X ELSE ConnectedSubnets(OneRouterAway(X))

\* p[i .. ] continues a chain that stands on subnet cur and has used the subnets of used
RECURSIVE HasChain(_, _, _, _, _)
HasChain(p, i, cur, used, e) ==
    IF i > Len(p) THEN cur = e
    ELSE \E t \in SubnetIds \ used :
            /\ Attached(cur, p[i])
            /\ Attached(t, p[i])
            /\ HasChain(p, i + 1, t, used \cup {t}, e)

RouterSequences == UNION {Orders(T) : T \in SUBSET RouterIds} \ {<<>>}

\* the router sequences of the chains s, r1, s1, ..., rk, e that use no subnet and no
\* router twice
SimpleRouterPaths(s, e) == {p \in RouterSequences : HasChain(p, 1, s, {s}, e)}

SweepReturned == discovery_type = "sweep" /\ pc \in {"returned", "swept"}
FindReturned == discovery_type = "find" /\ pc = "returned"

(***************************************************************************)
(* C1: a sweep started at subnet S ends with its visited subnets being     *)
(* exactly the subnets connected to S through a chain of attached routers  *)
(* and subnets: none of them is missed and none outside of them is visited.*)
(***************************************************************************)
C1_SweepVisitsComponent ==
    SweepReturned => Range(visited.subnets) = ConnectedSubnets({subnet_start})

\* a sweep has ended after branching, with two subnets reached and one out of reach
C1_Witness ==
    /\ SweepReturned
    /\ Cardinality(ConnectedSubnets({subnet_start})) = 2
    /\ Cardinality(Range(visited.routers)) >= 2

(***************************************************************************)
(* C2: sweep_network raises UnreachableNetwork if and only if a subnet of  *)
(* the topology is absent from the visited subnets of the sweep, and the   *)
(* total it reports is the number of subnets that were not visited.        *)
(***************************************************************************)
C2_UnreachableIffMissing ==
    pc = "swept" =>
        /\ sweep_error.raised <=> (SubnetIds \ Range(visited.subnets) # {})
        /\ sweep_error.raised =>
             sweep_error.total = Cardinality(SubnetIds \ Range(visited.subnets))

\* sweep_network has raised for two subnets out of reach of a start that has a router
C2_Witness ==
    /\ pc = "swept"
    /\ sweep_error.raised
    /\ sweep_error.total = 2
    /\ Len(visited.routers) > 0

(***************************************************************************)
(* C3, as stated: the find run for (s, e) returns every simple router-path *)
(* from s to e that the topology holds.                                    *)
(***************************************************************************)
C3_EverySimplePathReturned ==
    FindReturned =>
        SimpleRouterPaths(subnet_start, subnet_end) \subseteq Range(ants_at_objective)

(***************************************************************************)
(* C3, amended: when the topology holds a simple router-path from s to e,  *)
(* the find run for (s, e) returns at least one of them (not each of them).*)
(***************************************************************************)
C3_SomeSimplePathReturned ==
    (FindReturned /\ SimpleRouterPaths(subnet_start, subnet_end) # {}) =>
        \E i \in 1 .. Len(ants_at_objective) :
            ants_at_objective[i] \in SimpleRouterPaths(subnet_start, subnet_end)

\* a find run has ended where the topology holds two paths or more, one of them of
\* two routers or more
C3_Witness ==
    /\ FindReturned
    /\ Cardinality(SimpleRouterPaths(subnet_start, subnet_end)) >= 2
    /\ \E p \in SimpleRouterPaths(subnet_start, subnet_end) : Len(p) >= 2
    /\ Len(ants_at_objective) >= 1

(***************************************************************************)
(* C4: every path a find run records for (s, e) is non-empty, holds no     *)
(* router twice, starts with a router attached to s, ends with a router    *)
(* attached to e, and any two consecutive routers share a subnet.          *)
(***************************************************************************)
ValidRouterPath(p, s, e) ==
    /\ Len(p) > 0
    /\ NoDuplicates(p)
    /\ Attached(s, p[1])
    /\ Attached(e, p[Len(p)])
    /\ \A i \in 1 .. (Len(p) - 1) :
          \E t \in SubnetIds : Attached(t, p[i]) /\ Attached(t, p[i + 1])

C4_ReturnedPathsValid ==
    discovery_type = "find" =>
        \A i \in 1 .. Len(ants_at_objective) :
            ValidRouterPath(ants_at_objective[i], subnet_start, subnet_end)

\* a find run has ended with a path of two routers or more, after a birth
C4_Witness ==
    /\ FindReturned
    /\ \E i \in 1 .. Len(ants_at_objective) : Len(ants_at_objective[i]) >= 2
    /\ Len(visited.routers) >= 3

(***************************************************************************)
(* Path selection: utils.py and AntsDiscovery.filter_paths_from_hops.      *)
(* Python indexes lists from 0: index j of the code is element j + 1 here. *)
(***************************************************************************)
\* number_of_matching_in_list(liste, elements): the elements that are in liste
RECURSIVE number_of_matching_in_list(_, _)
number_of_matching_in_list(liste, elements) ==
    IF Len(elements) = 0 THEN 0
    ELSE (IF InList(elements[1], liste) THEN 1 ELSE 0)
         + number_of_matching_in_list(liste, Tail(elements))

\* list_preferences_from_paths(paths, preferred)
list_preferences_from_paths(paths_, preferred) ==
    [i \in 1 .. Len(paths_) |-> number_of_matching_in_list(preferred, paths_[i])]

\* a loop that flushes the kept indexes on a bigger value and forgets to keep the new one
RECURSIVE largest_loop_flush_only(_, _, _, _)
largest_loop_flush_only(given, j, length, dict_largest) ==
    IF j >= Len(given) THEN dict_largest
    ELSE LET on_par == IF given[j + 1] = length THEN Append(dict_largest, j)
                       ELSE dict_largest
             bigger == IF given[j + 1] > length THEN <<>> ELSE on_par
         IN  largest_loop_flush_only(given, j + 1, length, bigger)

\* the loop of list_of_largest_of_list from j on; dict_largest is the list of its keys.
\* length is set at j = 0 and is not assigned again.
RECURSIVE largest_loop(_, _, _, _)
largest_loop(given, j, length, dict_largest) ==
    IF j >= Len(given) THEN dict_largest
    ELSE LET on_par == IF given[j + 1] = length THEN Append(dict_largest, j)
                       ELSE dict_largest
             bigger == IF given[j + 1] > length THEN <<j>> ELSE on_par
         IN  largest_loop(given, j + 1, length, bigger)

\* list_of_largest_of_list(given, return_index=True): the kept indexes, from 0
list_of_largest_of_list(given) ==
    IF Len(given) = 1 THEN <<0>>
    ELSE IF Len(given) = 0 THEN <<>>
    ELSE largest_loop(given, 1, given[1], <<0>>)

\* a loop that also moves on to a path of the same length: the last shortest
RECURSIVE smaller_loop_last(_, _, _, _)
smaller_loop_last(given, j, id_, length) ==
    IF j >= Len(given) THEN id_
    ELSE IF Len(given[j + 1]) <= length
         THEN smaller_loop_last(given, j + 1, j, Len(given[j + 1]))
         ELSE smaller_loop_last(given, j + 1, id_, length)

\* the loop of smaller_of_list from j on
RECURSIVE smaller_loop(_, _, _, _)
smaller_loop(given, j, id_, length) ==
    IF j >= Len(given) THEN id_
    ELSE IF Len(given[j + 1]) < length
         THEN smaller_loop(given, j + 1, j, Len(given[j + 1]))
         ELSE smaller_loop(given, j + 1, id_, length)

\* the index of a longest list
smaller_of_list_longest(given) ==
    CHOOSE i \in 0 .. Len(given) - 1 :
        \A j \in 1 .. Len(given) : Len(given[j]) <= Len(given[i + 1])

\* smaller_of_list(given) on a list that is not empty: the chosen index, from 0
smaller_of_list(given) ==
    IF Len(given) = 1 THEN 0
    ELSE smaller_loop(given, 1, 0, Len(given[1]))

\* [path for n, path in enumerate(v) if n in largest]
KeepIndexes(v, largest) ==
    LET kept == SelectSeq([i \in 1 .. Len(v) |-> i - 1], LAMBDA n : InList(n, largest))
    IN  [k \in 1 .. Len(kept) |-> v[kept[k] + 1]]

\* the PREFERRED ROUTERS stage: "if p and len(v) > 1"
preferred_stage(v, p) ==
    IF Len(p) > 0 /\ Len(v) > 1
    THEN KeepIndexes(v, list_of_largest_of_list(list_preferences_from_paths(v, p)))
    ELSE v

\* the EQUITEMPORALITY stage; smaller_of_list of an empty list indexes with None
equitemporality_stage(v, equitemporality) ==
    IF equitemporality
    THEN IF Len(v) = 1 THEN [kind |-> "path", value |-> v[1]]
         ELSE IF Len(v) = 0 THEN [kind |-> "type_error", value |-> <<>>]
         ELSE [kind |-> "path", value |-> v[smaller_of_list(v) + 1]]
    ELSE [kind |-> "list", value |-> v]

\* a path: routers, none twice
PathLists == UNION {[1 .. n -> RouterSequences] : n \in 0 .. MaxPaths}

RECURSIVE Ascending(_)
Ascending(T) ==
    IF T = {} THEN <<>>
    ELSE LET m == CHOOSE x \in T : \A y \in T : x <= y
         IN  <<m>> \o Ascending(T \ {m})

\* the values of the preferred_routers option; the empty list stands for an absent
\* option and for None as well
PreferredLists == {Ascending(T) : T \in SUBSET RouterIds}

FilterInit ==
    /\ fpc = "input"
    /\ paths \in PathLists
    /\ options \in [preferred_routers : PreferredLists, equitemporality : BOOLEAN]
    /\ after_preferred = <<>>
    /\ hops_out = [kind |-> "none", value |-> <<>>]

ApplyPreferredRouters ==
    /\ fpc = "input"
    /\ after_preferred' = preferred_stage(paths, options.preferred_routers)
    /\ fpc' = "preferred"
    /\ UNCHANGED <<paths, options, hops_out>>
    /\ UNCHANGED <<antsVars, builderVars, dispatcherVars>>

ApplyEquitemporality ==
    /\ fpc = "preferred"
    /\ hops_out' = equitemporality_stage(after_preferred, options.equitemporality)
    /\ fpc' = "filtered"
    /\ UNCHANGED <<paths, options, after_preferred>>
    /\ UNCHANGED <<antsVars, builderVars, dispatcherVars>>

FilterNext == ApplyPreferredRouters \/ ApplyEquitemporality

InitFilter == NoAntsRun /\ FilterInit /\ NoBuilderRun /\ NoDispatcherRun

SpecFilter == InitFilter /\ [][FilterNext]_vars

\* the indexes (from 1) of the shortest paths of a list
ShortestIndexes(v) == {i \in 1 .. Len(v) : \A k \in 1 .. Len(v) : Len(v[i]) <= Len(v[k])}

FirstShortest(v) == CHOOSE i \in ShortestIndexes(v) : \A k \in ShortestIndexes(v) : i <= k

Score(path, p) == Cardinality({i \in 1 .. Len(path) : path[i] \in Range(p)})

MaxScore(v, p) == CHOOSE m \in {Score(v[i], p) : i \in 1 .. Len(v)} :
                     \A i \in 1 .. Len(v) : Score(v[i], p) <= m

(***************************************************************************)
(* C5, as stated: under equitemporality the selected path of a pair with   *)
(* one discovered path or more has the fewest routers among all the paths  *)
(* discovered for the pair, and is the earliest of those on a tie.         *)
(***************************************************************************)
C5_SelectedShortestOfDiscovered ==
    (fpc = "filtered" /\ options.equitemporality /\ Len(paths) >= 1) =>
        /\ hops_out.kind = "path"
        /\ hops_out.value = paths[FirstShortest(paths)]

(***************************************************************************)
(* C5, amended: under equitemporality the selected path of a pair with one *)
(* discovered path or more has the fewest routers among the paths that the *)
(* preferred-router stage kept (all the discovered paths when no router is *)
(* preferred), and is the earliest of those on a tie.                      *)
(***************************************************************************)
C5_SelectedShortestOfKept ==
    (fpc = "filtered" /\ options.equitemporality /\ Len(paths) >= 1) =>
        /\ hops_out.kind = "path"
        /\ Len(after_preferred) >= 1
        /\ hops_out.value = after_preferred[FirstShortest(after_preferred)]

\* the selection has run on three paths, the stage of the preferred routers has kept
\* two of them, of the same length, and these are not the shortest discovered
C5_Witness ==
    /\ fpc = "filtered"
    /\ options.equitemporality
    /\ Len(paths) = 3
    /\ Len(after_preferred) = 2
    /\ Len(after_preferred[1]) = Len(after_preferred[2])
    /\ after_preferred[1] # after_preferred[2]
    /\ Len(paths[FirstShortest(paths)]) < Len(hops_out.value)

(***************************************************************************)
(* C6: with preferred routers configured and more than one path, the stage *)
(* of the preferred routers keeps exactly the paths whose number of        *)
(* preferred routers is the maximum over the paths of the pair.            *)
(***************************************************************************)
C6_KeepsExactlyMaxScore ==
    (fpc \in {"preferred", "filtered"} /\ Len(options.preferred_routers) > 0 /\ Len(paths) > 1) =>
        after_preferred =
            SelectSeq(paths, LAMBDA path :
                Score(path, options.preferred_routers) = MaxScore(paths, options.preferred_routers))

(***************************************************************************)
(* C7: the paths that the stage of the preferred routers keeps are a subset*)
(* of the paths kept without preferred routers, and are not empty when the *)
(* pair has a path: the stage adds no path and empties no set.             *)
(***************************************************************************)
C7_PreferredOnlyNarrows ==
    fpc \in {"preferred", "filtered"} =>
        /\ Range(after_preferred) \subseteq Range(preferred_stage(paths, <<>>))
        /\ Len(after_preferred) <= Len(preferred_stage(paths, <<>>))
        /\ Len(paths) > 0 => Len(after_preferred) > 0

\* the stage has dropped a path of three
C7_Witness ==
    /\ fpc \in {"preferred", "filtered"}
    /\ Len(options.preferred_routers) > 0
    /\ Len(paths) = 3
    /\ Len(after_preferred) \in {1, 2}

(***************************************************************************)
(* Addresses.  An address is its four bytes; the literal of an address is  *)
(* its dotted decimal text, a list of characters.                          *)
(***************************************************************************)
Pow2(n) == IF n = 0 THEN 1 ELSE IF n = 1 THEN 2 ELSE IF n = 2 THEN 4
           ELSE IF n = 3 THEN 8 ELSE IF n = 4 THEN 16 ELSE IF n = 5 THEN 32
           ELSE IF n = 6 THEN 64 ELSE IF n = 7 THEN 128 ELSE 256

\* the bits of byte i (1 .. 4) that a mask of the given length leaves to the hosts
HostBits(i, mask_length) ==
    IF 8 * i - mask_length <= 0 THEN 0
    ELSE IF 8 * i - mask_length >= 8 THEN 8
    ELSE 8 * i - mask_length

\* IPv4Network.init_from_couple(ip, mask).network_range: network and broadcast address
network_range(ip, mask_length) ==
    [start |-> [i \in 1 .. 4 |-> ip[i] - (ip[i] % Pow2(HostBits(i, mask_length)))],
     end   |-> [i \in 1 .. 4 |-> ip[i] - (ip[i] % Pow2(HostBits(i, mask_length)))
                                  + Pow2(HostBits(i, mask_length)) - 1]]

IpLess(a, b) ==
    \E i \in 1 .. 4 : a[i] < b[i] /\ \A k \in 1 .. (i - 1) : a[k] = b[k]

IpLeq(a, b) == a = b \/ IpLess(a, b)

\* Utils.ip_before(ip): the address before ip (ip is not 0.0.0.0)
ip_before(ip) ==
    IF ip[4] > 0 THEN <<ip[1], ip[2], ip[3], ip[4] - 1>>
    ELSE IF ip[3] > 0 THEN <<ip[1], ip[2], ip[3] - 1, 255>>
    ELSE IF ip[2] > 0 THEN <<ip[1], ip[2] - 1, 255, 255>>
    ELSE <<ip[1] - 1, 255, 255, 255>>

DigitChars == <<"0", "1", "2", "3", "4", "5", "6", "7", "8", "9">>

\* str(b) of a byte
ByteText(b) ==
    IF b < 10 THEN <<DigitChars[b + 1]>>
    ELSE IF b < 100 THEN <<DigitChars[(b \div 10) + 1], DigitChars[(b % 10) + 1]>>
    ELSE <<DigitChars[(b \div 100) + 1], DigitChars[((b \div 10) % 10) + 1],
           DigitChars[(b % 10) + 1]>>

\* Utils.netr_to_literal(range)['start'] and str(ip): the dotted decimal text
Literal(ip) ==
    ByteText(ip[1]) \o <<".">> \o ByteText(ip[2]) \o <<".">>
        \o ByteText(ip[3]) \o <<".">> \o ByteText(ip[4])

\* text.split('.')
RECURSIVE Split(_)
Split(text) ==
    IF \A i \in 1 .. Len(text) : text[i] # "." THEN <<text>>
    ELSE LET dot == CHOOSE i \in 1 .. Len(text) :
                        text[i] = "." /\ \A k \in 1 .. (i - 1) : text[k] # "."
         IN  <<SubSeq(text, 1, dot - 1)>> \o Split(SubSeq(text, dot + 1, Len(text)))

DigitValue(c) == (CHOOSE d \in 1 .. 10 : DigitChars[d] = c) - 1

\* int(text) of a decimal text
RECURSIVE ParseInt(_)
ParseInt(text) ==
    IF Len(text) = 0 THEN 0
    ELSE 10 * ParseInt(SubSeq(text, 1, Len(text) - 1)) + DigitValue(text[Len(text)])

\* text.startswith(prefix)
StartsWith(text, prefix) ==
    Len(prefix) <= Len(text) /\ SubSeq(text, 1, Len(prefix)) = prefix

(***************************************************************************)
(* NetworkCreator: create_network and create_router.                       *)
(***************************************************************************)
\* f"<Untitled Network#ID:{uid}>"
DefaultNetworkName(uid) ==
    <<"<Untitled Network#ID:0>", "<Untitled Network#ID:1>", "<Untitled Network#ID:2>",
      "<Untitled Network#ID:3>">>[uid + 1]

\* f"<Untitled Router#ID:{uid}>"
DefaultRouterName(uid) ==
    <<"<Untitled Router#ID:0>", "<Untitled Router#ID:1>", "<Untitled Router#ID:2>",
      "<Untitled Router#ID:3>">>[uid + 1]

\* NetworkCreator.Network.__init__
Network(starting_ip, mask, uid, name) ==
    [uid |-> uid, name |-> name, cidr |-> <<starting_ip, mask>>,
     network_range |-> network_range(starting_ip, mask),
     mask_length |-> mask, routers |-> <<>>]

\* NetworkCreator.Router.__init__
Router(uid, internet, name) ==
    [uid |-> uid, name |-> name, internet |-> internet, connected_networks |-> <<>>]

\* is_name_existing(type_, name)
is_name_existing(type_, name) ==
    InList(name, IF type_ = "subnet" THEN subnets_names ELSE routers_names)

\* the test of one existing subnet in create_network: the value of overlap
overlap(current, subnet) ==
    LET current_start == Literal(current.network_range.start)
        subnet_start_ == Literal(subnet.network_range.start)
        big == IF current.mask_length < subnet.mask_length
               THEN Split(current_start) ELSE Split(subnet_start_)
        small == IF current.mask_length < subnet.mask_length
                 THEN subnet_start_ ELSE current_start
    IN  IF current.mask_length = subnet.mask_length
        THEN current_start = subnet_start_
        ELSE IF current.mask_length <= 8
        THEN ParseInt(big[1]) <= ParseInt(Split(small)[1])
        ELSE IF current.mask_length <= 16
        THEN /\ StartsWith(small, big[1])
             /\ ParseInt(big[2]) <= ParseInt(Split(small)[2])
        ELSE IF current.mask_length <= 24
        THEN /\ StartsWith(small, big[1] \o <<".">> \o big[2])
             /\ ParseInt(big[3]) <= ParseInt(Split(small)[3])
        ELSE ParseInt(big[4]) <= ParseInt(Split(small)[4])

\* a uid counting from one
next_uid_from_one(dict) == Len(dict) + 1

\* uid = len(self.subnetworks), uid = len(self.routers)
next_uid(dict) == Len(dict)

\* how create_network(ip, mask_length, name) ends
create_network_result(ip, mask_length, name) ==
    IF name # "" /\ is_name_existing("subnet", name) THEN "NameAlreadyExists"
    ELSE IF Len(ranges) > 0
            /\ \E sid \in 1 .. Len(subnetworks) :
                  overlap(Network(ip, mask_length, next_uid(subnetworks), name), subnetworks[sid])
         THEN "OverlappingError"
         ELSE "ok"

\* the calls that the model makes: a range in 10.0.0.0/8 and a name ("" is no name)
NetworkInputs == {<<<<10, 0, 0, 0>>, 8>>, <<<<10, 1, 0, 0>>, 24>>,
                  <<<<10, 0, 0, 0>>, 30>>, <<<<10, 0, 1, 0>>, 30>>}
NetworkNames == {"", "A", "<Untitled Network#ID:1>"}
RouterNames == {"", "R1", "<Untitled Router#ID:1>"}

create_network(ip, mask_length, name) ==
    /\ LET uid == next_uid(subnetworks)
           result == create_network_result(ip, mask_length, name)
           name_ == IF name # "" THEN name ELSE DefaultNetworkName(uid)
           current == Network(ip, mask_length, uid, name_)
       IN  /\ last_call' = [op |-> "create_network", result |-> result,
                            current |-> <<ip, mask_length>>,
                            returned |-> IF result = "ok" THEN uid ELSE -1]
           /\ IF result = "ok"
              THEN /\ subnetworks' = Append(subnetworks, current)
                   /\ ranges' = Append(ranges, current.network_range)
                   /\ subnets_names' = Append(subnets_names, name_)
              ELSE UNCHANGED <<subnetworks, ranges, subnets_names>>
    /\ UNCHANGED <<routers, routers_names>>

create_router(internet_connection, name) ==
    /\ LET uid == next_uid(routers)
           exists == name # "" /\ is_name_existing("router", name)
           name_ == IF name # "" THEN name ELSE DefaultRouterName(uid)
       IN  /\ last_call' = [op |-> "create_router",
                            result |-> IF exists THEN "NameAlreadyExists" ELSE "ok",
                            current |-> <<>>,
                            returned |-> IF exists THEN -1 ELSE uid]
           /\ IF exists
              THEN UNCHANGED <<routers, routers_names>>
              ELSE /\ routers' = Append(routers, Router(uid, internet_connection, name_))
                   /\ routers_names' = Append(routers_names, name_)
    /\ UNCHANGED <<subnetworks, ranges, subnets_names>>

\* the calls of a direct user of the NetworkCreator
CreateNetworkCall ==
    /\ Len(subnetworks) < MaxNetworks
    /\ \E input \in NetworkInputs, name \in NetworkNames :
          create_network(input[1], input[2], name)
    /\ UNCHANGED <<antsVars, filterVars, dispatcherVars>>

CreateRouterCall ==
    /\ Len(routers) < MaxBuiltRouters
    /\ \E internet \in BOOLEAN, name \in RouterNames : create_router(internet, name)
    /\ UNCHANGED <<antsVars, filterVars, dispatcherVars>>

BuilderNext == CreateNetworkCall \/ CreateRouterCall

InitBuilder == NoAntsRun /\ NoFilterRun /\ NoBuilderRun /\ NoDispatcherRun

SpecBuilder == InitBuilder /\ [][BuilderNext]_vars

\* two stored ranges share an address
RangesIntersect(x, y) ==
    /\ IpLeq(x.network_range.start, y.network_range.end)
    /\ IpLeq(y.network_range.start, x.network_range.end)

(***************************************************************************)
(* C8: after any sequence of create_network calls no two stored subnets    *)
(* have intersecting address ranges: a call whose range intersects the     *)
(* range of a stored subnet fails with OverlappingError.                   *)
(***************************************************************************)
C8_NoStoredRangesIntersect ==
    \A i, j \in 1 .. Len(subnetworks) :
        i # j => ~RangesIntersect(subnetworks[i], subnetworks[j])

(***************************************************************************)
(* C9: the overlap verdict is symmetric: creating B after A is rejected as *)
(* overlapping if and only if creating A after B is.  Of two stored        *)
(* subnets the later was accepted after the earlier, so the earlier must   *)
(* be accepted after the later; and a call rejected for a stored subnet    *)
(* must make that subnet rejected after it.                                *)
(***************************************************************************)
C9_OverlapVerdictSymmetric ==
    /\ \A i, j \in 1 .. Len(subnetworks) :
          (i < j /\ ~overlap(subnetworks[j], subnetworks[i]))
              => ~overlap(subnetworks[i], subnetworks[j])
    /\ (last_call.op = "create_network" /\ last_call.result = "OverlappingError") =>
          \A i \in 1 .. Len(subnetworks) :
              LET current == Network(last_call.current[1], last_call.current[2],
                                     Len(subnetworks), "")
              IN  overlap(current, subnetworks[i]) => overlap(subnetworks[i], current)

(***************************************************************************)
(* NetworkCreator.connect_router_to_networks.                              *)
(***************************************************************************)
\* name_to_uid(cat, name): the first index that holds the name, 0 when none does
name_to_uid(names, name) ==
    IF InList(name, names)
    THEN (CHOOSE i \in 1 .. Len(names) :
             names[i] = name /\ \A k \in 1 .. (i - 1) : names[k] # name) - 1
    ELSE 0

\* IPv4Network.init_from_fbl(ip, mask).address_type: 0 network, 1 host, 2 broadcast
address_type(ip, mask_length) ==
    IF ip = network_range(ip, mask_length).start THEN 0
    ELSE IF ip = network_range(ip, mask_length).end THEN 2
    ELSE 1

\* a dict: a list of [key, value] in insertion order
HasKey(dict, key) == \E i \in 1 .. Len(dict) : dict[i].key = key

\* dict[key] = value: an existing key keeps its place
SetKey(dict, key, value) ==
    IF HasKey(dict, key)
    THEN [i \in 1 .. Len(dict) |->
             IF dict[i].key = key THEN [key |-> key, value |-> value] ELSE dict[i]]
    ELSE Append(dict, [key |-> key, value |-> value])

\* a check that tests the holders only and takes every address for a host
check_ip_availability_any_type(subnet_inst_, ip_) ==
    IF \E r \in 1 .. Len(subnet_inst_.routers) :
           Literal(subnet_inst_.routers[r].value) = Literal(ip_)
    THEN "IPAlreadyAttributed"
    ELSE "ok"

\* check_ip_availability(subnet_inst_, ip_): "ok" or the error it raises
check_ip_availability(subnet_inst_, ip_) ==
    IF address_type(ip_, subnet_inst_.mask_length) # 1 THEN "IPOffNetworkRangeException"
    ELSE IF \E r \in 1 .. Len(subnet_inst_.routers) :
                Literal(subnet_inst_.routers[r].value) = Literal(ip_)
         THEN "IPAlreadyAttributed"
         ELSE "ok"

\* the "while True" loop from ip on: the address it breaks on, <<>> when the check
\* raises something else than IPAlreadyAttributed
probe_first(subnet_inst, ip) ==
    IF check_ip_availability(subnet_inst, ip_before(ip)) = "IPOffNetworkRangeException"
    THEN <<>>
    ELSE ip_before(ip)

RECURSIVE probe(_, _)
probe(subnet_inst, ip) ==
    LET ip_ == ip_before(ip)
        check == check_ip_availability(subnet_inst, ip_)
    IN  IF check = "ok" THEN ip_
        ELSE IF check = "IPAlreadyAttributed" THEN probe(subnet_inst, ip_)
        ELSE <<>>

\* the address of one entry: the given one after its check, or the probed one.
\* ip_bound tells whether the variable ip was assigned before: check_ip_availability
\* reads it when it raises for a given address off the range.
resolve_ip(subnet_inst, subnet_ip, ip_bound) ==
    IF subnet_ip # <<>>
    THEN [ip |-> subnet_ip,
          result |-> IF check_ip_availability(subnet_inst, subnet_ip)
                           = "IPOffNetworkRangeException" /\ ~ip_bound
                     THEN "NameError"
                     ELSE check_ip_availability(subnet_inst, subnet_ip)]
    ELSE [ip |-> probe(subnet_inst, subnet_inst.network_range.end),
          result |-> IF probe(subnet_inst, subnet_inst.network_range.end) = <<>>
                     THEN "IPOffNetworkRangeException" ELSE "ok"]

\* a connect that records nothing on the subnet
network_connect_none(subnets_, subnet_uid, router_uid, ip) == subnets_

\* subnet_inst.connect(router_uid, ip) of Network
network_connect(subnets_, subnet_uid, router_uid, ip) ==
    [subnets_ EXCEPT ![subnet_uid + 1].routers = SetKey(@, router_uid, ip)]

\* a router whose connect accepts every attachment
router_connect_never_raises(router_) == FALSE

\* router_inst.connect(subnet_uid, ip) of Router raises when the router has
\* internet and holds an attachment already
router_connect_raises(router_) ==
    router_.internet /\ Len(router_.connected_networks) > 0

\* router_inst.connect(subnet_uid, ip) of Router, when it does not raise
router_connect(routers_, router_uid, subnet_uid, ip) ==
    [routers_ EXCEPT ![router_uid + 1].connected_networks = SetKey(@, subnet_uid, ip)]

\* the loop "for name in subnets_ips" from entry k on.  Each entry is [name, ip], ip
\* being <<>> for None.  The subnet is connected before the router is asked.
RECURSIVE connect_entries(_, _, _, _, _, _)
connect_one(subnets_, routers_, router_uid, subnets_ips, k, subnet_uid, resolved) ==
    IF resolved.result # "ok"
    THEN [subnetworks |-> subnets_, routers |-> routers_, result |-> resolved.result]
    ELSE IF router_connect_raises(routers_[router_uid + 1])
    THEN [subnetworks |-> network_connect(subnets_, subnet_uid, router_uid, resolved.ip),
          routers |-> routers_, result |-> "Exception"]
    ELSE connect_entries(network_connect(subnets_, subnet_uid, router_uid, resolved.ip),
                         router_connect(routers_, router_uid, subnet_uid, resolved.ip),
                         router_uid, subnets_ips, k + 1, TRUE)

connect_entries(subnets_, routers_, router_uid, subnets_ips, k, ip_bound) ==
    IF k > Len(subnets_ips)
    THEN [subnetworks |-> subnets_, routers |-> routers_, result |-> "ok"]
    ELSE IF name_to_uid(subnets_names, subnets_ips[k].name) >= Len(subnets_)
            \/ router_uid >= Len(routers_)
    THEN [subnetworks |-> subnets_, routers |-> routers_, result |-> "KeyError"]
    ELSE connect_one(subnets_, routers_, router_uid, subnets_ips, k,
                     name_to_uid(subnets_names, subnets_ips[k].name),
                     resolve_ip(subnets_[name_to_uid(subnets_names, subnets_ips[k].name) + 1],
                                subnets_ips[k].ip, ip_bound))

connect_router_to_networks(router_name, subnets_ips) ==
    /\ \E done \in {connect_entries(subnetworks, routers,
                                    name_to_uid(routers_names, router_name),
                                    subnets_ips, 1, FALSE)} :
          /\ subnetworks' = done.subnetworks
          /\ routers' = done.routers
          /\ last_call' = [op |-> "connect_router_to_networks", result |-> done.result,
                           current |-> <<>>, returned |-> -1]
    /\ UNCHANGED <<subnets_names, routers_names, ranges>>

\* the addresses that the calls of the model give: a host of 10.0.0.0/30 and its
\* broadcast address; both lie outside 10.0.1.0/30
ExplicitIps == {<<10, 0, 0, 1>>, <<10, 0, 0, 3>>}
LinkSubnetNames == {"A", "B"}
LinkRouterNames == {"R1", "R2"}
LinkEntries == [name : LinkSubnetNames, ip : ExplicitIps \cup {<<>>}]

\* the dicts {subnet name: ip or None}, in each order of their keys
LinkMappings ==
    {<<e>> : e \in LinkEntries}
        \cup {m \in LinkEntries \X LinkEntries : m[1].name # m[2].name}

\* the builder after create_network("10.0.0.0", 30, "A"), create_network("10.0.1.0",
\* 30, "B"), create_router(name="R1", internet_connection=m), create_router(name="R2")
AttachInit ==
    /\ subnetworks = <<Network(<<10, 0, 0, 0>>, 30, 0, "A"),
                       Network(<<10, 0, 1, 0>>, 30, 1, "B")>>
    /\ ranges = <<network_range(<<10, 0, 0, 0>>, 30), network_range(<<10, 0, 1, 0>>, 30)>>
    /\ subnets_names = <<"A", "B">>
    /\ \E m \in BOOLEAN : routers = <<Router(0, m, "R1"), Router(1, FALSE, "R2")>>
    /\ routers_names = <<"R1", "R2">>
    /\ last_call = [op |-> "create_router", result |-> "ok", current |-> <<>>,
                    returned |-> 1]

InitAttach == NoAntsRun /\ NoFilterRun /\ AttachInit /\ NoDispatcherRun

ConnectCall ==
    /\ \E router_name \in LinkRouterNames, subnets_ips \in LinkMappings :
          connect_router_to_networks(router_name, subnets_ips)
    /\ UNCHANGED <<antsVars, filterVars, dispatcherVars>>

SpecAttach == InitAttach /\ [][ConnectCall]_vars

IpStrictlyInside(ip, subnet) ==
    IpLess(subnet.network_range.start, ip) /\ IpLess(ip, subnet.network_range.end)

(***************************************************************************)
(* C10: after any sequence of attach calls every IP recorded for a router  *)
(* on a subnet, given or assigned, lies strictly between the network       *)
(* address and the broadcast address of that subnet: a given IP outside of *)
(* them is rejected.                                                       *)
(***************************************************************************)
C10_RecordedIpsInsideSubnet ==
    /\ \A s \in 1 .. Len(subnetworks) : \A i \in 1 .. Len(subnetworks[s].routers) :
          IpStrictlyInside(subnetworks[s].routers[i].value, subnetworks[s])
    /\ \A r \in 1 .. Len(routers) : \A i \in 1 .. Len(routers[r].connected_networks) :
          IpStrictlyInside(routers[r].connected_networks[i].value,
                           subnetworks[routers[r].connected_networks[i].key + 1])

\* the routers, other than router_uid, that hold ip in the router map of a subnet
HoldersOf(subnet, ip, router_uid) ==
    {subnet.routers[i].key : i \in {k \in 1 .. Len(subnet.routers) :
        /\ subnet.routers[k].key # router_uid
        /\ Literal(subnet.routers[k].value) = Literal(ip)}}

(***************************************************************************)
(* C11: after any sequence of attach calls no two distinct routers hold    *)
(* the same IP on the same subnet, in the router map of the subnet and in  *)
(* the subnet maps of the routers, and an attach call that gives an IP     *)
(* which another router holds on that subnet fails with                    *)
(* IPAlreadyAttributed.                                                    *)
(***************************************************************************)
C11_NoSharedIpOnSubnet ==
    /\ \A s \in 1 .. Len(subnetworks) : \A i, j \in 1 .. Len(subnetworks[s].routers) :
          i # j => Literal(subnetworks[s].routers[i].value)
                       # Literal(subnetworks[s].routers[j].value)
    /\ \A r1, r2 \in 1 .. Len(routers) :
          \A i \in 1 .. Len(routers[r1].connected_networks) :
              \A j \in 1 .. Len(routers[r2].connected_networks) :
                  (r1 # r2 /\ routers[r1].connected_networks[i].key
                                 = routers[r2].connected_networks[j].key)
                  => Literal(routers[r1].connected_networks[i].value)
                         # Literal(routers[r2].connected_networks[j].value)
    /\ \A router_name \in LinkRouterNames, e \in LinkEntries :
          (/\ e.ip # <<>>
           /\ HoldersOf(subnetworks[name_to_uid(subnets_names, e.name) + 1], e.ip,
                        name_to_uid(routers_names, router_name)) # {})
          => connect_entries(subnetworks, routers, name_to_uid(routers_names, router_name),
                             <<e>>, 1, FALSE).result = "IPAlreadyAttributed"

\* the addresses of the two subnets of the attach calls
AttachAddresses == {<<10, 0, a, b>> : a \in 0 .. 1, b \in 0 .. 3}

\* the host addresses of a subnet that no router of its router map holds
FreeHosts(subnet) ==
    {ip \in AttachAddresses :
        /\ IpStrictlyInside(ip, subnet)
        /\ \A i \in 1 .. Len(subnet.routers) : subnet.routers[i].value # ip}

HighestFreeHost(subnet) ==
    CHOOSE h \in FreeHosts(subnet) : \A g \in FreeHosts(subnet) : IpLeq(g, h)

\* the value of a key in a dict
ValueOf(dict, key) ==
    dict[CHOOSE i \in 1 .. Len(dict) : dict[i].key = key].value

\* the mappings that give no IP at all
AutoMappings == {m \in LinkMappings : \A k \in 1 .. Len(m) : m[k].ip = <<>>}

(***************************************************************************)
(* C12: an attach call that gives no IP for a subnet assigns the router    *)
(* the highest host address of that subnet, below the broadcast address,   *)
(* that no router attached to the subnet holds at that moment; it finds    *)
(* one whenever one is free.                                               *)
(***************************************************************************)
C12_AutoAssignsHighestFreeHost ==
    \A router_name \in LinkRouterNames, m \in AutoMappings :
        LET router_uid == name_to_uid(routers_names, router_name)
            done == connect_entries(subnetworks, routers, router_uid, m, 1, FALSE)
        IN  /\ (\A k \in 1 .. Len(m) :
                   FreeHosts(subnetworks[name_to_uid(subnets_names, m[k].name) + 1]) # {})
               => done.result # "IPOffNetworkRangeException"
            /\ done.result = "ok" =>
                  \A k \in 1 .. Len(m) :
                      LET subnet_uid == name_to_uid(subnets_names, m[k].name)
                      IN  /\ ValueOf(done.subnetworks[subnet_uid + 1].routers, router_uid)
                                = HighestFreeHost(subnetworks[subnet_uid + 1])
                          /\ ValueOf(done.routers[router_uid + 1].connected_networks, subnet_uid)
                                = HighestFreeHost(subnetworks[subnet_uid + 1])

\* two routers have been given the two hosts of 10.0.1.0/30 from the top down;
\* no call of the model gives these addresses, so both were assigned
C12_Witness ==
    /\ last_call.op = "connect_router_to_networks"
    /\ last_call.result = "ok"
    /\ Len(subnetworks[2].routers) = 2
    /\ subnetworks[2].routers[1].value = <<10, 0, 1, 2>>
    /\ subnetworks[2].routers[2].value = <<10, 0, 1, 1>>

(***************************************************************************)
(* C14: after any sequence of create_network and create_router calls, with *)
(* or without a name, no two subnets share a name and no two routers share *)
(* a name, the default names included: a call that would duplicate a name  *)
(* fails with NameAlreadyExists and stores nothing.                        *)
(***************************************************************************)
C14_NamesUniquePerCategory ==
    /\ NoDuplicates(subnets_names)
    /\ NoDuplicates(routers_names)
    /\ \A i, j \in 1 .. Len(subnetworks) : i # j => subnetworks[i].name # subnetworks[j].name
    /\ \A i, j \in 1 .. Len(routers) : i # j => routers[i].name # routers[j].name

\* the stored state of the builder
BuilderStore == <<subnetworks, routers, subnets_names, routers_names, ranges>>

(***************************************************************************)
(* C15: ids are dense, zero-based and in insertion order: a successful     *)
(* creation returns the number of entities of its category stored before   *)
(* it and stores the new entity last under that id, and a creation that    *)
(* fails returns no id and leaves subnets, routers, names and ranges as    *)
(* they were.                                                              *)
(***************************************************************************)
C15_DenseIdsAndFailuresStoreNothing ==
    [][/\ last_call'.result # "ok" => (last_call'.returned = -1 /\ UNCHANGED BuilderStore)
       /\ (last_call'.op = "create_network" /\ last_call'.result = "ok") =>
             /\ last_call'.returned = Len(subnetworks)
             /\ Len(subnetworks') = Len(subnetworks) + 1
             /\ SubSeq(subnetworks', 1, Len(subnetworks)) = subnetworks
             /\ subnetworks'[Len(subnetworks')].uid = Len(subnetworks)
             /\ UNCHANGED routers
       /\ (last_call'.op = "create_router" /\ last_call'.result = "ok") =>
             /\ last_call'.returned = Len(routers)
             /\ Len(routers') = Len(routers) + 1
             /\ SubSeq(routers', 1, Len(routers)) = routers
             /\ routers'[Len(routers')].uid = Len(routers)
             /\ UNCHANGED subnetworks
       /\ \A i \in 1 .. Len(subnetworks') : subnetworks'[i].uid = i - 1
       /\ \A i \in 1 .. Len(routers') : routers'[i].uid = i - 1]_vars

\* a second subnet has been stored under id 1 after a creation failed on an
\* overlap, and a router creation has just failed on its name
C15_Witness ==
    /\ Len(subnetworks) = 2
    /\ subnetworks[2].uid = 1
    /\ Len(routers) = 1
    /\ last_call.op = "create_router"
    /\ last_call.result = "NameAlreadyExists"

(***************************************************************************)
(* The discovery process under the scheduling of the interpreter: a        *)
(* running call always takes its next step.                                *)
(***************************************************************************)
InitTermination ==
    /\ AntsInitOver({E \in Attachments : Cardinality(E) <= MaxLiveLinks})
    /\ NoFilterRun /\ NoBuilderRun /\ NoDispatcherRun

SpecTermination == InitTermination /\ [][Next]_vars /\ WF_vars(Next)

\* the process has left its loop with an empty list of ants
PoolEmpty == pc \in {"returned", "swept"} /\ Len(ants) = 0

(***************************************************************************)
(* C18: every discovery run, sweep or find, terminates: the list of ants   *)
(* eventually becomes empty, and the number of rounds entered never        *)
(* exceeds the number of subnets plus the number of routers.               *)
(***************************************************************************)
C18_RunTerminatesWithinBound ==
    /\ <>PoolEmpty
    /\ [](rounds <= Cardinality(DOMAIN links.subnets) + Cardinality(DOMAIN links.routers))

\* a run has returned after two rounds, all the subnets visited
C18_Witness ==
    /\ PoolEmpty
    /\ rounds = 2
    /\ Len(visited.subnets) = 3

(***************************************************************************)
(* Dispatcher.execute: checks, build of the virtual network, discovery     *)
(* (sweep, then one find per entry of the matrix), selection.              *)
(***************************************************************************)
\* the subnets and routers that the data name: two subnets of two hosts, or three
\* subnets with room for every router
SubnetData == {<<[name |-> "A", ip |-> <<10, 0, 0, 0>>, mask |-> 30, form |-> "ip/mask"],
                 [name |-> "B", ip |-> <<10, 0, 1, 0>>, mask |-> 30, form |-> "ip/mask"]>>,
               <<[name |-> "X", ip |-> <<10, 1, 0, 0>>, mask |-> 24, form |-> "ip/mask"],
                 [name |-> "Y", ip |-> <<10, 1, 1, 0>>, mask |-> 24, form |-> "ip/mask"],
                 [name |-> "Z", ip |-> <<10, 1, 2, 0>>, mask |-> 24, form |-> "ip/mask"]>>}
RouterData == <<"R1", "R2", "R3">>

\* {subnet name: None, ...} over the subnets s: the keys in any order for two
\* routers, in the order of the subnets for three
LinkLists(s, m) ==
    LET names == [i \in 1 .. Len(s) |-> s[i].name]
        KeyOrders(T) == IF m < 3 THEN Orders(T)
                        ELSE {SelectSeq(names, LAMBDA name : name \in T)}
    IN  {[k \in 1 .. Len(o) |-> [name |-> o[k], ip |-> <<>>]] :
            o \in UNION {KeyOrders(T) : T \in SUBSET Range(names)}}

\* the data of one execute call: the subnets, two or three routers, each with its
\* internet flag and its links
ExecuteData ==
    UNION {
            {[subnetworks |-> s,
              routers |-> [i \in 1 .. m |-> [name |-> RouterData[i], internet |-> f[i]]],
              links |-> [i \in 1 .. m |-> [router_name |-> RouterData[i],
                                           subnets_ips |-> l[i]]],
              form |-> WellFormed] :
                f \in [1 .. m -> BOOLEAN], l \in [1 .. m -> LinkLists(s, m)]} :
        s \in SubnetData, m \in 2 .. 3}

\* the keys of a dict, in insertion order
Keys(dict) == [i \in 1 .. Len(dict) |-> dict[i].key]

\* the matrix of prepare_matrix_and_links, in the order of its two loops
matrix(n) ==
    LET pairs == [i \in 1 .. n * n |-> <<(i - 1) \div n, (i - 1) % n>>]
    IN  SelectSeq(pairs, LAMBDA pair : pair[1] # pair[2])

\* a master search that takes the first internet router, or router 0, without raising
get_master_router_first(routers_) ==
    [raised |-> FALSE,
     master |-> IF \E i \in 1 .. Len(routers_) : routers_[i].internet
                THEN (CHOOSE i \in 1 .. Len(routers_) :
                         /\ routers_[i].internet
                         /\ \A k \in 1 .. i - 1 : ~routers_[k].internet) - 1
                ELSE 0]

\* get_master_router(routers): raises when no router or several have internet
get_master_router(routers_) ==
    LET masters == SelectSeq([i \in 1 .. Len(routers_) |-> i - 1],
                             LAMBDA i : routers_[i + 1].internet)
    IN  IF Len(masters) # 1 THEN [raised |-> TRUE, master |-> 0]
        ELSE [raised |-> FALSE, master |-> masters[1]]

\* execute ends on an exception
Raise(exception) ==
    /\ dpc' = "raised"
    /\ raised' = exception
    /\ UNCHANGED cursor

\* the running loop goes to its next entry, or the flow to its next step
Advance(length, next_) ==
    /\ IF cursor < length
       THEN cursor' = cursor + 1 /\ UNCHANGED dpc
       ELSE cursor' = 1 /\ dpc' = next_
    /\ UNCHANGED raised

InitExecute ==
    /\ NoAntsRun /\ NoFilterRun /\ NoBuilderRun
    /\ adapter = [via |-> "none"]
    /\ dispatcher_options = [preferred_routers |-> None]
    /\ last_set_option = [option |-> "", value |-> None, result |-> "none"]
    /\ data \in ExecuteData
    /\ dpc = "checks"
    /\ cursor = 0
    /\ master_router = 0
    /\ ants_options = [kind |-> "none"]
    /\ hops = <<>>
    /\ routing_tables = <<>>
    /\ raised = ""
    /\ stages = <<>>
    /\ runs = [sweep |-> 0, swept |-> 0, find |-> 0]

\* __checks: the error it raises, or "ok".  A subnet value passes when it splits in
\* two at "/" and its first part is an address; its second part is not looked at
checks_result(data_) ==
    IF data_.form.subnetworks # "ok" THEN "WronglyFormedSubnetworksData"
    ELSE IF \E i \in 1 .. Len(data_.subnetworks) :
                data_.subnetworks[i].form \notin {"ip/mask", "ip/x"}
    THEN "WronglyFormedSubnetworksData"
    ELSE IF data_.form.routers # "ok" THEN "WronglyFormedRoutersData"
    ELSE IF data_.form.links # "ok" THEN "WronglyFormedLinksData"
    ELSE "ok"

\* __checks, the first step of __flow
checks ==
    /\ dpc = "checks"
    /\ IF checks_result(data) # "ok"
       THEN Raise(checks_result(data))
       ELSE dpc' = "build_subnets" /\ cursor' = 1 /\ UNCHANGED raised
    /\ UNCHANGED <<givenVars, routing_tables, master_router, ants_options, hops, stages, runs>>
    /\ UNCHANGED <<antsVars, filterVars, builderVars>>

\* __build_virtual_network, "for name in self.subnetworks": one create_network;
\* int(mask) raises ValueError before the call when the mask is not a number
BuildSubnet ==
    /\ dpc = "build_subnets"
    /\ LET s == data.subnetworks[cursor]
       IN  IF s.form = "ip/x"
           THEN Raise("ValueError") /\ UNCHANGED builderVars
           ELSE /\ create_network(s.ip, s.mask, s.name)
                /\ IF create_network_result(s.ip, s.mask, s.name) # "ok"
                   THEN Raise(create_network_result(s.ip, s.mask, s.name))
                   ELSE Advance(Len(data.subnetworks), "build_routers")
    /\ stages' = IF cursor = 1 THEN Append(stages, "build") ELSE stages
    /\ UNCHANGED <<givenVars, routing_tables, master_router, ants_options, hops, runs>>
    /\ UNCHANGED <<antsVars, filterVars>>

\* __build_virtual_network, "for name in self.routers": one create_router
BuildRouter ==
    /\ dpc = "build_routers"
    /\ LET r == data.routers[cursor]
       IN  /\ create_router(r.internet, r.name)
           /\ IF is_name_existing("router", r.name)
              THEN Raise("NameAlreadyExists")
              ELSE Advance(Len(data.routers), "build_links")
    /\ UNCHANGED <<givenVars, routing_tables, master_router, ants_options, hops, stages, runs>>
    /\ UNCHANGED <<antsVars, filterVars>>

\* __build_virtual_network, "for router_name in self.links": one
\* connect_router_to_networks; the discovery follows the last one
BuildLink ==
    /\ dpc = "build_links"
    /\ LET l == data.links[cursor]
       IN  /\ connect_router_to_networks(l.router_name, l.subnets_ips)
           /\ IF last_call'.result # "ok"
              THEN Raise(last_call'.result)
              ELSE Advance(Len(data.links), "discover")
    /\ UNCHANGED <<givenVars, routing_tables, master_router, ants_options, hops, stages, runs>>
    /\ UNCHANGED <<antsVars, filterVars>>

\* a run that keeps the visited lists and the found paths of the run before it
StartRun_shared(type_, start, end) ==
    /\ discovery_type' = type_
    /\ subnet_start' = start
    /\ subnet_end' = end
    /\ pc' = "init"
    /\ ants' = <<>>
    /\ idx' = 0
    /\ sweep_error' = [raised |-> FALSE, total |-> 0]
    /\ rounds' = 0
    /\ UNCHANGED <<links, visited, ants_at_objective>>

\* a discovery run is handed to ants_discovery_process
StartRun(type_, start, end) ==
    /\ discovery_type' = type_
    /\ subnet_start' = start
    /\ subnet_end' = end
    /\ pc' = "init"
    /\ ants' = <<>>
    /\ idx' = 0
    /\ visited' = [subnets |-> <<>>, routers |-> <<>>]
    /\ ants_at_objective' = <<>>
    /\ sweep_error' = [raised |-> FALSE, total |-> 0]
    /\ rounds' = 0
    /\ UNCHANGED links

\* __discover_hops: AntsDiscovery(gend_subnetworks, gend_routers, self.equitemporality),
\* whose __init__ prepares the links and looks for the master router
discover_hops ==
    /\ dpc = "discover"
    /\ links' = prepare_matrix_and_links(
                    [i \in 1 .. Len(subnetworks) |-> Keys(subnetworks[i].routers)],
                    [i \in 1 .. Len(routers) |-> Keys(routers[i].connected_networks)])
    /\ ants_options' = [kind |-> "bool", value |-> TRUE]
    /\ hops' = <<>>
    /\ stages' = Append(stages, "discover")
    /\ IF get_master_router(routers).raised
       THEN Raise("MasterRouterError") /\ UNCHANGED master_router
       ELSE /\ master_router' = get_master_router(routers).master
            /\ dpc' = "sweep"
            /\ UNCHANGED <<cursor, raised>>
    /\ UNCHANGED <<givenVars, routing_tables, runs>>
    /\ UNCHANGED <<discovery_type, subnet_start, subnet_end, pc, ants, idx, visited,
                   ants_at_objective, sweep_error, rounds>>
    /\ UNCHANGED <<filterVars, builderVars>>

\* sweep_network up to its call of ants_discovery_process: the sweep starts from
\* the first subnet of the master router
SweepStart ==
    /\ dpc = "sweep"
    /\ IF Len(routers[master_router + 1].connected_networks) = 0
       THEN /\ Raise("IndexError")
            /\ UNCHANGED <<antsVars, runs>>
       ELSE /\ StartRun("sweep", Keys(routers[master_router + 1].connected_networks)[1],
                        Keys(routers[master_router + 1].connected_networks)[1])
            /\ runs' = [runs EXCEPT !.sweep = @ + 1]
            /\ dpc' = "sweeping"
            /\ UNCHANGED <<cursor, raised>>
    /\ UNCHANGED <<givenVars, routing_tables, master_router, ants_options, hops, stages>>
    /\ UNCHANGED <<filterVars, builderVars>>

\* what __discover_hops does after sweep_network: UnreachableNetwork leaves it,
\* else calculate_hops is called
discover_hops_always_on(error) == "hops"

discover_hops_after_sweep(error) == IF error.raised THEN "raised" ELSE "hops"

AfterSweep ==
    /\ dpc = "sweeping"
    /\ pc = "swept"
    /\ IF discover_hops_after_sweep(sweep_error) = "raised"
       THEN Raise("UnreachableNetwork") /\ UNCHANGED runs
       ELSE /\ dpc' = "hops"
            /\ cursor' = 1
            /\ runs' = [runs EXCEPT !.swept = IF sweep_error.raised THEN @ ELSE @ + 1]
            /\ UNCHANGED raised
    /\ pc' = "off"
    /\ UNCHANGED <<givenVars, routing_tables, master_router, ants_options, hops, stages>>
    /\ UNCHANGED <<links, discovery_type, subnet_start, subnet_end, ants, idx, visited,
                   ants_at_objective, sweep_error, rounds>>
    /\ UNCHANGED <<filterVars, builderVars>>

\* calculate_hops, "for i in range(len(self.subnets_table))": the find of one entry
FindStart ==
    /\ dpc = "hops"
    /\ StartRun("find", matrix(Len(subnetworks))[cursor][1],
                matrix(Len(subnetworks))[cursor][2])
    /\ runs' = [runs EXCEPT !.find = @ + 1]
    /\ dpc' = "finding"
    /\ UNCHANGED <<givenVars, routing_tables, cursor, master_router, ants_options, hops, raised, stages>>
    /\ UNCHANGED <<filterVars, builderVars>>

\* self.hops[(s, e)] = at_objective; the filter follows the last entry
FindEnd ==
    /\ dpc = "finding"
    /\ pc = "returned"
    /\ hops' = SetKey(hops, <<subnet_start, subnet_end>>, ants_at_objective)
    /\ IF cursor < Len(matrix(Len(subnetworks)))
       THEN cursor' = cursor + 1 /\ dpc' = "hops"
       ELSE cursor' = 1 /\ dpc' = "filter"
    /\ pc' = "off"
    /\ UNCHANGED <<givenVars, routing_tables, master_router, ants_options, raised, stages, runs>>
    /\ UNCHANGED <<links, discovery_type, subnet_start, subnet_end, ants, idx, visited,
                   ants_at_objective, sweep_error, rounds>>
    /\ UNCHANGED <<filterVars, builderVars>>

\* filter_paths_from_hops on the options of the AntsDiscovery: "in" needs a dict
\* and raises TypeError on the boolean that __discover_hops hands over
filter_paths_from_hops ==
    /\ dpc = "filter"
    /\ stages' = Append(stages, "select")
    /\ IF ants_options.kind # "dict"
       THEN Raise("TypeError") /\ UNCHANGED hops
       ELSE /\ hops' = [i \in 1 .. Len(hops) |->
                          [key |-> hops[i].key,
                           value |-> equitemporality_stage(
                                        preferred_stage(hops[i].value,
                                                        ants_options.value.preferred_routers),
                                        ants_options.value.equitemporality)]]
            /\ dpc' = "tables"
            /\ UNCHANGED <<cursor, raised>>
    /\ UNCHANGED <<givenVars, routing_tables, master_router, ants_options, runs>>
    /\ UNCHANGED <<antsVars, filterVars, builderVars>>

ExecuteNext ==
    \/ checks
    \/ BuildSubnet
    \/ BuildRouter
    \/ BuildLink
    \/ discover_hops
    \/ SweepStart
    \/ AfterSweep
    \/ FindStart
    \/ FindEnd
    \/ filter_paths_from_hops
    \/ Next

SpecExecute == InitExecute /\ [][ExecuteNext]_vars

(***************************************************************************)
(* The options of the Dispatcher and the adapters.                         *)
(***************************************************************************)
\* Python objects: a class is an object whose type is the class "type"
Class(name) == [kind |-> "type", items |-> <<name>>]
Str == [kind |-> "str", items |-> <<>>]
List(items) == [kind |-> "list", items |-> items]

\* type(obj)
type(obj) == IF obj.kind = "type" THEN Class("type") ELSE Class(obj.kind)

\* isinstance(obj, class_), for the classes above, none a subclass of another
isinstance(obj, class_) == type(obj) = class_

\* Dispatcher.__possible_options
possible_options == <<[key |-> "preferred_routers", value |-> Class("list")]>>

\* Dispatcher.available_options
available_options == Keys(possible_options)

\* set_option(option, value): the error it raises, or "ok"
set_option_result(option, value) ==
    IF ~InList(option, available_options) THEN "WrongOptionName"
    ELSE IF ~isinstance(value, type(ValueOf(possible_options, option)))
    THEN "WrongOptionValueType"
    ELSE "ok"

\* set_option(option, value)
set_option(option, value) ==
    /\ last_set_option' = [option |-> option, value |-> value,
                           result |-> set_option_result(option, value)]
    /\ dispatcher_options' =
          IF set_option_result(option, value) = "ok"
          THEN [dispatcher_options EXCEPT ![option] = value]
          ELSE dispatcher_options

\* the names and the values that the options of the model are given: a list of
\* router names, a string and, for a call from Python, the class list
OptionNames == {"preferred_routers", "unknown"}
FileValues == {List(<<"R2">>), Str}
CallValues == FileValues \cup {Class("list")}

\* the "Options" part of a file: a dict of at most two entries
OptionDicts ==
    {<<>>}
      \cup {<<[name |-> n, value |-> v]>> : n \in OptionNames, v \in FileValues}
      \cup {o \in {<<[name |-> n, value |-> v], [name |-> k, value |-> w]>> :
                       n \in OptionNames, k \in OptionNames,
                       v \in FileValues, w \in FileValues} : o[1].name # o[2].name}

\* the example: A = 10.0.0.0/30, B = 10.0.1.0/30, R1 with internet, R2,
\* R1 -> {A: None}, R2 -> {A: None, B: None}
ExampleData ==
    [subnetworks |-> <<[name |-> "A", ip |-> <<10, 0, 0, 0>>, mask |-> 30, form |-> "ip/mask"],
                       [name |-> "B", ip |-> <<10, 0, 1, 0>>, mask |-> 30, form |-> "ip/mask"]>>,
     routers |-> <<[name |-> "R1", internet |-> TRUE], [name |-> "R2", internet |-> FALSE]>>,
     links |-> <<[router_name |-> "R1", subnets_ips |-> <<[name |-> "A", ip |-> <<>>]>>],
                 [router_name |-> "R2", subnets_ips |-> <<[name |-> "A", ip |-> <<>>],
                                                         [name |-> "B", ip |-> <<>>]>>]>>,
     form |-> WellFormed]

\* a network that three routers leave by several ways: Z holds the three of them
RichData ==
    [subnetworks |-> <<[name |-> "X", ip |-> <<10, 1, 0, 0>>, mask |-> 24, form |-> "ip/mask"],
                       [name |-> "Y", ip |-> <<10, 1, 1, 0>>, mask |-> 24, form |-> "ip/mask"],
                       [name |-> "Z", ip |-> <<10, 1, 2, 0>>, mask |-> 24, form |-> "ip/mask"]>>,
     routers |-> <<[name |-> "R1", internet |-> TRUE], [name |-> "R2", internet |-> FALSE],
                   [name |-> "R3", internet |-> FALSE]>>,
     links |-> <<[router_name |-> "R1", subnets_ips |-> <<[name |-> "Z", ip |-> <<>>]>>],
                 [router_name |-> "R2", subnets_ips |-> <<[name |-> "X", ip |-> <<>>],
                                                         [name |-> "Y", ip |-> <<>>],
                                                         [name |-> "Z", ip |-> <<>>]>>],
                 [router_name |-> "R3", subnets_ips |-> <<[name |-> "X", ip |-> <<>>],
                                                         [name |-> "Z", ip |-> <<>>]>>]>>,
     form |-> WellFormed]

\* the same networks with X cut off from the master router
CutOffData ==
    [RichData EXCEPT
        !.links = <<[router_name |-> "R1", subnets_ips |-> <<[name |-> "Z", ip |-> <<>>]>>],
                    [router_name |-> "R2", subnets_ips |-> <<[name |-> "Y", ip |-> <<>>],
                                                            [name |-> "Z", ip |-> <<>>]>>],
                    [router_name |-> "R3", subnets_ips |-> <<[name |-> "X", ip |-> <<>>]>>]>>]

\* what the keys "cidr", "ip" and "mask" of the last network of a file, or the last
\* value of the subnetworks of a call, may look like
ValueForms == {"ip/mask", "ip", "ip/x"}

\* data whose last subnet value has the form f
WithLastForm(d, f) ==
    [d EXCEPT !.subnetworks[Len(d.subnetworks)].form = f]

\* the data handed to execute by a call from Python: well formed, or with one thing
\* that is not as __checks asks
CallData ==
    UNION {{WithLastForm(d, f) : f \in ValueForms}
             \cup {[d EXCEPT !.form.subnetworks = "not_dict"]}
             \cup {[d EXCEPT !.form.routers = v] : v \in {"not_dict", "bad_value"}}
             \cup {[d EXCEPT !.form.links = v] : v \in {"not_dict", "bad_value"}} :
           d \in {ExampleData, RichData, CutOffData}}

\* the top-level keys of a file, capitalised, in their order
PartLists ==
    {<<"Networks", "Routers", "Links">>,
     <<"Routers", "Networks", "Connections">>,
     <<"Networks", "Routers", "Links", "Options">>,
     <<"Networks", "Routers", "Links", "Hosts">>,
     <<"Networks", "Links">>,
     <<"Routers", "Links", "Options">>,
     <<"Networks", "Routers", "Options">>}

\* the decoded files: the parts, the networks (the last one with the keys "cidr",
\* "ip" and "mask", or with none of them), the links (a dict or a list), the options
Files ==
    {[via |-> "file", ignore |-> i, parts |-> p, topology |-> WithLastForm(d, f),
      last_keys |-> k, links_form |-> l, options |-> o] :
        i \in BOOLEAN, p \in PartLists, d \in {ExampleData, RichData},
        f \in ValueForms, k \in {"cidr", "ip_mask", "none"}, l \in {"ok", "not_dict"},
        o \in OptionDicts}

\* JSONAdapter.evaluate up to its call of _process: the error it raises, or "ok"
evaluate_result(file) ==
    IF \E i \in 1 .. Len(file.parts) :
          file.parts[i] \notin {"Networks", "Routers", "Links", "Connections", "Options"}
    THEN "WrongFileTag"
    ELSE IF ~InList("Routers", file.parts) THEN "MissingFileTag"
    ELSE IF ~InList("Networks", file.parts) THEN "MissingFileTag"
    ELSE IF ~InList("Links", file.parts) /\ ~InList("Connections", file.parts)
    THEN "MissingFileTag"
    ELSE IF file.last_keys = "none" THEN "MissingFileInfo"
    ELSE "ok"

\* the subnetworks, routers and links that evaluate hands to _process
evaluate_data(file) == [file.topology EXCEPT !.form.links = file.links_form]

\* the options that evaluate hands to _process: decoded['Options'], or None
evaluate_options(file) == IF InList("Options", file.parts) THEN file.options ELSE <<>>

\* JSONAdapter.evaluate
evaluate ==
    /\ dpc = "evaluate"
    /\ IF evaluate_result(adapter) # "ok"
       THEN Raise(evaluate_result(adapter))
       ELSE dpc' = "process" /\ cursor' = 1 /\ UNCHANGED raised
    /\ UNCHANGED <<givenVars, routing_tables, master_router, ants_options, hops, stages, runs>>
    /\ UNCHANGED <<antsVars, filterVars, builderVars>>

\* an ignore flag that passes over every error of set_option
process_continues_any(ignore_, result) == result = "ok" \/ ignore_

\* _process, one option: with ignore, WrongOptionName is caught and nothing else
process_continues(ignore_, result) ==
    result = "ok" \/ (ignore_ /\ result = "WrongOptionName")

\* _process, "for name in options": one set_option
process_option ==
    /\ dpc = "process"
    /\ cursor <= Len(evaluate_options(adapter))
    /\ LET o == evaluate_options(adapter)[cursor]
       IN  /\ set_option(o.name, o.value)
           /\ IF process_continues(adapter.ignore, set_option_result(o.name, o.value))
              THEN cursor' = cursor + 1 /\ UNCHANGED <<dpc, raised>>
              ELSE Raise(set_option_result(o.name, o.value))
    /\ UNCHANGED <<adapter, data, routing_tables, master_router, ants_options, hops, stages, runs>>
    /\ UNCHANGED <<antsVars, filterVars, builderVars>>

\* _process, dispatch.execute(subnetworks, routers, links)
process_execute ==
    /\ dpc = "process"
    /\ cursor > Len(evaluate_options(adapter))
    /\ data' = evaluate_data(adapter)
    /\ dpc' = "checks"
    /\ cursor' = 0
    /\ UNCHANGED <<adapter, dispatcher_options, last_set_option, routing_tables, master_router,
                   ants_options, hops, raised, stages, runs>>
    /\ UNCHANGED <<antsVars, filterVars, builderVars>>

\* a call of set_option from Python on a Dispatcher that has not executed
SetOptionCall ==
    /\ dpc = "new"
    /\ \E option \in OptionNames, value \in CallValues : set_option(option, value)
    /\ UNCHANGED <<adapter, data, routing_tables, dpc, cursor, master_router, ants_options, hops, raised,
                   stages, runs>>
    /\ UNCHANGED <<antsVars, filterVars, builderVars>>

\* a call of execute from Python
ExecuteCall ==
    /\ dpc = "new"
    /\ data' \in CallData
    /\ dpc' = "checks"
    /\ UNCHANGED <<adapter, dispatcher_options, last_set_option, routing_tables, cursor, master_router,
                   ants_options, hops, raised, stages, runs>>
    /\ UNCHANGED <<antsVars, filterVars, builderVars>>

\* a Dispatcher after __init__, driven by the adapter on a file or by calls
InitAdapter ==
    /\ NoAntsRun /\ NoFilterRun /\ NoBuilderRun
    /\ adapter \in Files \cup {[via |-> "calls"]}
    /\ dispatcher_options = [preferred_routers |-> None]
    /\ last_set_option = [option |-> "", value |-> None, result |-> "none"]
    /\ data = [subnetworks |-> <<>>, routers |-> <<>>, links |-> <<>>, form |-> WellFormed]
    /\ dpc = IF adapter.via = "file" THEN "evaluate" ELSE "new"
    /\ cursor = 0
    /\ master_router = 0
    /\ ants_options = [kind |-> "none"]
    /\ hops = <<>>
    /\ routing_tables = <<>>
    /\ raised = ""
    /\ stages = <<>>
    /\ runs = [sweep |-> 0, swept |-> 0, find |-> 0]

AdapterNext ==
    \/ evaluate
    \/ process_option
    \/ process_execute
    \/ SetOptionCall
    \/ ExecuteCall
    \/ ExecuteNext

SpecAdapter == InitAdapter /\ [][AdapterNext]_vars

\* the build has ended without an exception
BuildCompleted == dpc = "discover" \/ InList("discover", stages)

\* get_ip_of_router_on_subnetwork(subnet_id, router_id): <<>> is None
get_ip_of_router_on_subnetwork(subnet_id, router_id) ==
    IF subnet_id >= Len(subnetworks) THEN <<>>
    ELSE IF ~HasKey(subnetworks[subnet_id + 1].routers, router_id) THEN <<>>
    ELSE ValueOf(subnetworks[subnet_id + 1].routers, router_id)

\* the address of a router on a subnet, by their names
ExampleIp(subnet_name, router_name) ==
    get_ip_of_router_on_subnetwork(name_to_uid(subnets_names, subnet_name),
                                   name_to_uid(routers_names, router_name))

(***************************************************************************)
(* C13: in the example the build gives R1 the address 10.0.0.2 on A, and   *)
(* R2 the addresses 10.0.0.1 on A and 10.0.1.1 on B.                       *)
(***************************************************************************)
C13_ExampleAddresses ==
    (data = ExampleData /\ BuildCompleted) =>
        /\ ExampleIp("A", "R1") = <<10, 0, 0, 2>>
        /\ ExampleIp("A", "R2") = <<10, 0, 0, 1>>
        /\ ExampleIp("B", "R2") = <<10, 0, 1, 1>>

(***************************************************************************)
(* C13, amended: in the example the build gives R1 the address 10.0.0.2 on *)
(* A, and R2 the addresses 10.0.0.1 on A and 10.0.1.2 on B, the highest    *)
(* host of B, which no router holds.                                       *)
(***************************************************************************)
C13_ExampleAddressesHighestOnB ==
    (data = ExampleData /\ BuildCompleted) =>
        /\ ExampleIp("A", "R1") = <<10, 0, 0, 2>>
        /\ ExampleIp("A", "R2") = <<10, 0, 0, 1>>
        /\ ExampleIp("B", "R2") = <<10, 0, 1, 2>>
        /\ routers[1].connected_networks = <<[key |-> 0, value |-> <<10, 0, 0, 2>>]>>
        /\ routers[2].connected_networks = <<[key |-> 0, value |-> <<10, 0, 0, 1>>],
                                             [key |-> 1, value |-> <<10, 0, 1, 2>>]>>

\* the build of the example has ended
C13_Witness ==
    /\ data = ExampleData
    /\ dpc = "discover"
    /\ last_call.op = "connect_router_to_networks"
    /\ last_call.result = "ok"

\* the routers of the built topology that have internet
InternetRouters == {i \in 1 .. Len(routers) : routers[i].internet}

\* the discovery has been entered: the AntsDiscovery has been constructed
DiscoveryEntered == InList("discover", stages)

\* no run of ants_discovery_process has started
NoRunStarted == runs.sweep = 0 /\ runs.find = 0 /\ pc = "off"

(***************************************************************************)
(* C16: when the built topology has no router with internet, or several,   *)
(* the execute ends on MasterRouterError, and no sweep run and no find run *)
(* has started.                                                            *)
(***************************************************************************)
C16_MasterRouterErrorBeforeAnyRun ==
    (DiscoveryEntered /\ Cardinality(InternetRouters) # 1) =>
        /\ dpc = "raised"
        /\ raised = "MasterRouterError"
        /\ NoRunStarted

\* a built topology with two internet routers has been refused
C16_Witness ==
    /\ DiscoveryEntered
    /\ Cardinality(InternetRouters) > 1
    /\ raised = "MasterRouterError"

(***************************************************************************)
(* C17: while a sweep has started, the master router has internet and is   *)
(* attached to exactly one subnet, the one the sweep starts from.  No      *)
(* router with internet ever holds a second attachment: the connect that   *)
(* asks for it raises and ends the build.  A build that leaves the master  *)
(* router without attachment ends on an error before any run starts.       *)
(***************************************************************************)
C17_MasterHasOneAttachmentAtSweep ==
    /\ runs.sweep > 0 =>
          /\ routers[master_router + 1].internet
          /\ Len(routers[master_router + 1].connected_networks) = 1
          /\ discovery_type = "sweep" =>
                subnet_start = routers[master_router + 1].connected_networks[1].key
    /\ \A i \in InternetRouters : Len(routers[i].connected_networks) <= 1
    /\ (last_call.op = "connect_router_to_networks" /\ last_call.result = "Exception") =>
          dpc = "raised" /\ raised = "Exception" /\ NoRunStarted
    /\ (DiscoveryEntered /\ \E i \in InternetRouters : Len(routers[i].connected_networks) = 0
          /\ Cardinality(InternetRouters) = 1) =>
          /\ dpc \in {"sweep", "raised"}
          /\ dpc = "raised" => raised = "IndexError"
          /\ NoRunStarted

\* the build has left the master router without attachment and sweep_network
\* has raised on it
C17_Witness ==
    /\ DiscoveryEntered
    /\ Cardinality(InternetRouters) = 1
    /\ Len(routers[master_router + 1].connected_networks) = 0
    /\ dpc = "raised"
    /\ raised = "IndexError"

(***************************************************************************)
(* C19: a find run has started only after the one sweep run has returned   *)
(* without error; when the sweep raises UnreachableNetwork, no find run    *)
(* has started and none starts afterwards.                                 *)
(***************************************************************************)
C19_NoFindBeforeSweepSucceeds ==
    /\ runs.find > 0 => runs.sweep = 1 /\ runs.swept = 1
    /\ dpc \in {"sweep", "sweeping"} => runs.find = 0
    /\ raised = "UnreachableNetwork" =>
          dpc = "raised" /\ runs.find = 0 /\ runs.swept = 0 /\ pc = "off"

\* a sweep that missed a subnet has ended the execute
C19_Witness ==
    /\ raised = "UnreachableNetwork"
    /\ runs.sweep = 1
    /\ sweep_error.raised

\* the stages of one execute, in the order of the flow
StageOrder == <<"build", "discover", "select", "synthesize">>

(***************************************************************************)
(* C20: the stages of an execute run in the order build, discover, select, *)
(* synthesize, each once, and an execute that has run the selection goes   *)
(* on to the synthesis without returning to an earlier stage.              *)
(***************************************************************************)
C20_StagesStrictlyForward ==
    /\ Len(stages) <= Len(StageOrder)
    /\ \A i \in 1 .. Len(stages) : stages[i] = StageOrder[i]
    /\ InList("select", stages) => dpc # "raised"

\* the node an ant entered last: the subnet it stands on when its next hop is a
\* router, else the router it stands on
LastEntered(ant) ==
    IF next_hop_type(ant.history) = "router" THEN <<"subnets", ant.subnet>>
    ELSE <<"routers", ant.router>>

IsPrefix(s, t) == Len(s) <= Len(t) /\ SubSeq(t, 1, Len(s)) = s

\* the ants of the pool after a step that entered a node in it: the new ones and
\* the ones whose history grew
Entering ==
    {i \in 1 .. Len(ants') : i > Len(ants) \/ ants'[i].history # ants[i].history}

\* between two states of a run no visited list loses an element, and each ant that
\* moved or was spawned entered a node that was not visited and now is
EntersOnlyUnvisited ==
    (pc \in {"init", "phase1", "phase2"} /\ pc' \in {"round", "phase1", "phase2"}
        /\ ~(pc = "phase2" /\ pc' = "round")) =>
        /\ IsPrefix(visited.subnets, visited'.subnets)
        /\ IsPrefix(visited.routers, visited'.routers)
        /\ \A i \in Entering :
              /\ ~InList(LastEntered(ants'[i])[2], visited[LastEntered(ants'[i])[1]])
              /\ InList(LastEntered(ants'[i])[2], visited'[LastEntered(ants'[i])[1]])

\* no visited list holds a node twice, and no two ants of the pool entered the
\* same node
EnteredOnce ==
    /\ NoDuplicates(visited.subnets)
    /\ NoDuplicates(visited.routers)
    /\ \A i, j \in 1 .. Len(ants) : i # j => LastEntered(ants[i]) # LastEntered(ants[j])
    /\ \A i \in 1 .. Len(ants) : InList(LastEntered(ants[i])[2], visited[LastEntered(ants[i])[1]])

(***************************************************************************)
(* C28: in every state of a discovery run the visited subnets and the      *)
(* visited routers hold no element twice; an ant that moves, or is         *)
(* spawned, enters a node that was not visited at that moment, and no two  *)
(* ants of the run enter the same node.                                    *)
(***************************************************************************)
C28_EachNodeEnteredOnce == []EnteredOnce /\ [][EntersOnlyUnvisited]_vars

\* a run in which a second ant found every subnet around its router visited
\* after a spawn: a node with several ways in was entered by one ant only
C28_Witness ==
    /\ pc = "phase2"
    /\ Len(visited.subnets) = 3
    /\ Len(visited.routers) = 3
    /\ \E i, j \in 1 .. Len(ants) :
          /\ i # j
          /\ ants[i].state = "Dead"
          /\ ants[j].state = "Dead"
          /\ Len(ants[i].history.subnets) > 1
          /\ Len(ants[j].history.subnets) > 1

\* the changes of state of an ant
StateChanges == {<<"Waiting", "Alive">>, <<"Alive", "Dead">>, <<"Waiting", "Dead">>}

\* the step removes the dead ants at the end of a round
IsCleanUp == pc = "phase2" /\ pc' = "round"

\* a step of a run changes the state of an ant along StateChanges only and leaves
\* a dead ant as it is; the cleaning keeps the other ants, each as it was
StateChangesOnly ==
    pc \in {"round", "phase1", "phase2"} =>
        IF IsCleanUp
        THEN /\ \A i \in 1 .. Len(ants') : ants'[i].state # "Dead" /\ InList(ants'[i], ants)
             /\ \A i \in 1 .. Len(ants) : ants[i].state # "Dead" => InList(ants[i], ants')
        ELSE /\ Len(ants') >= Len(ants)
             /\ \A i \in 1 .. Len(ants) :
                   /\ ants'[i].state # ants[i].state =>
                         <<ants[i].state, ants'[i].state>> \in StateChanges
                   /\ ants[i].state = "Dead" => ants'[i] = ants[i]

\* a round starts, or the process returns, with no dead ant in the pool
NoDeadAtRoundStart == pc = "round" => \A i \in 1 .. Len(ants) : ants[i].state # "Dead"

(***************************************************************************)
(* C29: the state of an ant changes from Waiting to Alive, from Alive to   *)
(* Dead or from Waiting to Dead only; a Dead ant is never activated and    *)
(* never acts; at the start of every round the pool holds no Dead ant.     *)
(***************************************************************************)
C29_AntStateMachine == []NoDeadAtRoundStart /\ [][StateChangesOnly]_vars

\* a second round is about to start with an ant that waits for its activation
\* after the dead of the first round were removed
C29_Witness ==
    /\ pc = "round"
    /\ rounds >= 1
    /\ \E i \in 1 .. Len(ants) : ants[i].state = "Waiting"
    /\ Len(visited.routers) > Len(ants)

\* the hop that the ants of a phase make
HopOfPhase(phase) == IF phase = "phase1" THEN "subnet" ELSE "router"

\* a step inside a phase: the ant of the loop acts, if it is alive and its next hop
\* is the hop of the phase, and no other ant of the pool changes; the loop goes to
\* the next ant, and what the step appends is not alive
ActsInTurn ==
    (pc \in {"phase1", "phase2"} /\ pc' = pc) =>
        /\ idx' = idx + 1
        /\ Len(ants') >= Len(ants)
        /\ \A i \in 1 .. Len(ants) : i # idx => ants'[i] = ants[i]
        /\ ants'[idx] # ants[idx] <=>
              ants[idx].state = "Alive" /\ next_hop_type(ants[idx].history) = HopOfPhase(pc)
        /\ \A i \in Len(ants) + 1 .. Len(ants') : ants'[i].state # "Alive"

\* in a phase, the ants that the loop has still to reach are alive only when their
\* next hop is the hop of the phase, and the waiting ants are the children of this
\* phase; between two rounds every ant is due for the subnet hop
DueInNextPhase ==
    /\ pc \in {"phase1", "phase2"} =>
          \A i \in 1 .. Len(ants) :
             /\ (ants[i].state = "Alive" /\ i >= idx) =>
                   next_hop_type(ants[i].history) = HopOfPhase(pc)
             /\ ants[i].state = "Waiting" =>
                   next_hop_type(ants[i].history) # HopOfPhase(pc)
    /\ pc = "round" =>
          \A i \in 1 .. Len(ants) : next_hop_type(ants[i].history) = "subnet"

(***************************************************************************)
(* C30: an ant spawned during a phase takes no action in that phase; it    *)
(* is activated for, and acts in, the phase that follows (the router hop   *)
(* of the same round for the children of the subnet hop, the subnet hop of *)
(* the next round for the children of the router hop); every alive ant     *)
(* acts at most once per phase.                                            *)
(***************************************************************************)
C30_SpawnedActsInNextPhase == []DueInNextPhase /\ [][ActsInTurn]_vars

\* the router hop is reached by the loop at a child of the subnet hop of the same
\* round, alive and due for its first action
C30_Witness ==
    /\ pc = "phase2"
    /\ idx <= Len(ants)
    /\ idx > 1
    /\ ants[idx].state = "Alive"
    /\ ants[idx - 1].state = "Dead"
    /\ next_hop_type(ants[idx].history) = "router"
    /\ Len(ants[idx].history.subnets) > 1
    /\ ants[idx].history.routers = ants[idx - 1].history.routers

\* a run is called with nothing left of the runs before it
RunStartsFresh ==
    pc = "init" =>
        /\ ants = <<>>
        /\ idx = 0
        /\ visited = [subnets |-> <<>>, routers |-> <<>>]
        /\ ants_at_objective = <<>>

\* once the discovery is entered, the built network and the adjacency view stay as
\* they are; a find that returns stores its paths under its pair, and the paths
\* stored for the pairs before it stay as they are until the selection
DiscoveryReadsOnly ==
    DiscoveryEntered =>
        /\ UNCHANGED <<subnetworks, routers, subnets_names, routers_names, ranges, links>>
        /\ (dpc = "finding" /\ dpc' # "finding") =>
              hops' = Append(hops, [key |-> <<subnet_start, subnet_end>>,
                                    value |-> ants_at_objective])
        /\ (dpc \in {"sweep", "sweeping", "hops"} \/ (dpc = "finding" /\ dpc' = "finding")) =>
              hops' = hops

(***************************************************************************)
(* C24: no sweep and no find changes a subnet, a router, an attachment or  *)
(* the adjacency view; every run starts from an empty pool, empty visited  *)
(* lists and no found path, so that what a find returns for its pair is    *)
(* decided by the adjacency view and the pair alone, and it is stored      *)
(* without changing what the finds before it returned.                     *)
(***************************************************************************)
C24_DiscoveryReadOnlyAndIndependent == []RunStartsFresh /\ [][DiscoveryReadsOnly]_vars

\* a second find is called after a sweep that visited every subnet and a find
\* that returned a path
C24_Witness ==
    /\ pc = "init"
    /\ discovery_type = "find"
    /\ runs.find = 2
    /\ Len(hops) = 1
    /\ Len(hops[1].value) > 0

\* data that are not three dicts of well-formed values
Malformed(d) ==
    d.form # WellFormed \/ \E i \in 1 .. Len(d.subnetworks) : d.subnetworks[i].form # "ip/mask"

\* the input of the run has a schema error: a wrong or missing part or missing keys
\* in the file, or wrongly formed data handed to execute
InputHasSchemaError ==
    \/ /\ adapter.via = "file"
       /\ evaluate_result(adapter) # "ok" \/ Malformed(evaluate_data(adapter))
    \/ /\ adapter.via = "calls"
       /\ dpc # "new"
       /\ Malformed(data)

\* no create_network, create_router or connect_router_to_networks has been called
NoBuilderCall == last_call.op = "none" /\ subnetworks = <<>> /\ routers = <<>>

(***************************************************************************)
(* C21: when the input has a schema error, no create_network, no           *)
(* create_router and no connect_router_to_networks call is ever made.      *)
(***************************************************************************)
C21_SchemaErrorsBeforeAnyBuild == InputHasSchemaError => NoBuilderCall

\* the errors of set_option
OptionErrors == {"WrongOptionName", "WrongOptionValueType"}

\* execute has been called: it has been handed its data
ExecuteCalled == Len(data.subnetworks) > 0

\* the file has an option of a recognised name whose value is not a list
HasWrongType ==
    \E k \in 1 .. Len(evaluate_options(adapter)) :
        /\ evaluate_options(adapter)[k].name = "preferred_routers"
        /\ evaluate_options(adapter)[k].value.kind # "list"

\* the file has an option whose name is not recognised
HasUnknownName ==
    \E k \in 1 .. Len(evaluate_options(adapter)) :
        evaluate_options(adapter)[k].name # "preferred_routers"

(***************************************************************************)
(* C22: in a run of the adapter on a file, execute is called only when no  *)
(* option has a value of the wrong type and, without the ignore flag, no   *)
(* option has an unknown name; with the ignore flag the run never ends on  *)
(* WrongOptionName, and it goes on to execute when unknown names are all   *)
(* that is wrong with the options; a run that ends on an error of          *)
(* set_option has not called execute.                                      *)
(***************************************************************************)
C22_IgnoreSkipsUnknownNamesOnly ==
    adapter.via = "file" =>
        /\ ExecuteCalled => ~HasWrongType /\ (adapter.ignore \/ ~HasUnknownName)
        /\ adapter.ignore => raised # "WrongOptionName"
        /\ (adapter.ignore /\ dpc = "raised" /\ raised \in OptionErrors) =>
              \E k \in 1 .. Len(evaluate_options(adapter)) :
                  evaluate_options(adapter)[k].name = "preferred_routers"
        /\ raised \in OptionErrors =>
              /\ dpc = "raised"
              /\ stages = <<>>
              /\ ~ExecuteCalled
              /\ NoBuilderCall

\* with the ignore flag, a file whose only option has an unknown name has reached
\* execute
C22_Witness ==
    /\ adapter.via = "file"
    /\ adapter.ignore
    /\ Len(evaluate_options(adapter)) = 1
    /\ HasUnknownName
    /\ last_set_option.result = "WrongOptionName"
    /\ dpc = "checks"

(***************************************************************************)
(* C23: set_option("preferred_routers", v) stores v when v is a list of    *)
(* router names and raises WrongOptionValueType when v is not a list;      *)
(* set_option with a name that is not a recognised option raises           *)
(* WrongOptionName; a call that raises leaves the stored options as they   *)
(* were.                                                                   *)
(***************************************************************************)
C23_SetOptionStoresLists ==
    last_set_option.result # "none" =>
        IF last_set_option.option # "preferred_routers"
        THEN last_set_option.result = "WrongOptionName"
        ELSE IF last_set_option.value.kind = "list"
        THEN /\ last_set_option.result = "ok"
             /\ dispatcher_options.preferred_routers = last_set_option.value
        ELSE /\ last_set_option.result = "WrongOptionValueType"
             /\ dispatcher_options.preferred_routers # last_set_option.value

(***************************************************************************)
(* C26: in an execute with no option configured, the selection ends        *)
(* without error and leaves, for every ordered pair of distinct subnets,   *)
(* one path as the value of hops.                                          *)
(***************************************************************************)
C26_DefaultSelectionLeavesOnePath ==
    (dispatcher_options.preferred_routers = None /\ InList("select", stages)) =>
        /\ raised = ""
        /\ Len(hops) = Len(matrix(Len(subnetworks)))
        /\ \A i \in 1 .. Len(hops) : hops[i].value \in Seq(0 .. Len(routers) - 1)

(***************************************************************************)
(* C27: the selection filters with the options configured on the           *)
(* Dispatcher: when set_option has stored a value for preferred_routers    *)
(* before execute, the options that filter_paths_from_hops reads hold      *)
(* that value.                                                             *)
(***************************************************************************)
C27_SelectionReadsConfiguredOptions ==
    (dispatcher_options.preferred_routers # None /\ InList("select", stages)) =>
        /\ ants_options.kind = "dict"
        /\ ants_options.value.preferred_routers = dispatcher_options.preferred_routers

(***************************************************************************)
(* The routing tables.  NetworkCreator, AntsDiscovery and                  *)
(* RoutingTablesGenerator used one after the other, the AntsDiscovery      *)
(* with a dict of options: the build, the sweep, the finds, the selection, *)
(* then one table per router.                                              *)
(***************************************************************************)
\* the topology that the expected tables of tests_adapters.py describe
TestData ==
    [subnetworks |-> <<[name |-> "P", ip |-> <<192, 168, 1, 0>>, mask |-> 24, form |-> "ip/mask"],
                       [name |-> "Q", ip |-> <<192, 168, 0, 0>>, mask |-> 24, form |-> "ip/mask"],
                       [name |-> "X", ip |-> <<10, 0, 0, 0>>, mask |-> 24, form |-> "ip/mask"],
                       [name |-> "Y", ip |-> <<10, 0, 1, 0>>, mask |-> 24, form |-> "ip/mask"]>>,
     routers |-> <<[name |-> "1", internet |-> FALSE], [name |-> "2", internet |-> FALSE],
                   [name |-> "3", internet |-> FALSE], [name |-> "4", internet |-> TRUE]>>,
     links |-> <<[router_name |-> "1", subnets_ips |-> <<[name |-> "Q", ip |-> <<>>],
                                                        [name |-> "P", ip |-> <<>>]>>],
                 [router_name |-> "2", subnets_ips |-> <<[name |-> "Q", ip |-> <<>>],
                                                        [name |-> "X", ip |-> <<>>]>>],
                 [router_name |-> "4", subnets_ips |-> <<[name |-> "Y", ip |-> <<>>]>>],
                 [router_name |-> "3", subnets_ips |-> <<[name |-> "P", ip |-> <<>>],
                                                        [name |-> "Y", ip |-> <<>>]>>]>>,
     form |-> WellFormed]

\* three subnets in a ring of three routers, the master router on the side
RingData ==
    [subnetworks |-> RichData.subnetworks,
     routers |-> <<[name |-> "R1", internet |-> TRUE], [name |-> "R2", internet |-> FALSE],
                   [name |-> "R3", internet |-> FALSE], [name |-> "R4", internet |-> FALSE]>>,
     links |-> <<[router_name |-> "R1", subnets_ips |-> <<[name |-> "Z", ip |-> <<>>]>>],
                 [router_name |-> "R2", subnets_ips |-> <<[name |-> "X", ip |-> <<>>],
                                                         [name |-> "Y", ip |-> <<>>]>>],
                 [router_name |-> "R3", subnets_ips |-> <<[name |-> "X", ip |-> <<>>],
                                                         [name |-> "Z", ip |-> <<>>]>>],
                 [router_name |-> "R4", subnets_ips |-> <<[name |-> "Y", ip |-> <<>>],
                                                         [name |-> "Z", ip |-> <<>>]>>]>>,
     form |-> WellFormed]

TablesData == ExecuteData \cup {TestData, RingData}

\* the options given to the AntsDiscovery: no preferred router, or one
OptionsGiven ==
    {[preferred_routers |-> p, equitemporality |-> TRUE] : p \in {<<>>, <<1>>}}

InitTables ==
    /\ NoAntsRun /\ NoFilterRun /\ NoBuilderRun
    /\ adapter = [via |-> "classes"]
    /\ dispatcher_options = [preferred_routers |-> None]
    /\ last_set_option = [option |-> "", value |-> None, result |-> "none"]
    /\ data \in TablesData
    /\ dpc = "build_subnets"
    /\ cursor = 1
    /\ master_router = 0
    /\ ants_options = [kind |-> "none"]
    /\ hops = <<>>
    /\ routing_tables = <<>>
    /\ raised = ""
    /\ stages = <<>>
    /\ runs = [sweep |-> 0, swept |-> 0, find |-> 0]

\* AntsDiscovery.__init__(subnets, routers, options): prepares the links and looks
\* for the master router
AntsDiscoveryInit ==
    /\ dpc = "discover"
    /\ links' = prepare_matrix_and_links(
                    [i \in 1 .. Len(subnetworks) |-> Keys(subnetworks[i].routers)],
                    [i \in 1 .. Len(routers) |-> Keys(routers[i].connected_networks)])
    /\ \E o \in OptionsGiven : ants_options' = [kind |-> "dict", value |-> o]
    /\ hops' = <<>>
    /\ stages' = Append(stages, "discover")
    /\ IF get_master_router(routers).raised
       THEN Raise("MasterRouterError") /\ UNCHANGED master_router
       ELSE /\ master_router' = get_master_router(routers).master
            /\ dpc' = "sweep"
            /\ UNCHANGED <<cursor, raised>>
    /\ UNCHANGED <<givenVars, routing_tables, runs>>
    /\ UNCHANGED <<discovery_type, subnet_start, subnet_end, pc, ants, idx, visited,
                   ants_at_objective, sweep_error, rounds>>
    /\ UNCHANGED <<filterVars, builderVars>>

\* the subnets attached to a router, in the order of its attachments
attached(router_id) == Keys(routers[router_id + 1].connected_networks)

\* the selected path from subnet s to subnet d
has_path(s, d) == HasKey(hops, <<s, d>>) /\ ValueOf(hops, <<s, d>>).kind = "path"

path(s, d) == ValueOf(hops, <<s, d>>).value

\* the attached subnets of a router from which the selected path to d is the
\* shortest; which of several is taken is left open
homes(router_id, d) ==
    LET from == {s \in Range(attached(router_id)) : has_path(s, d)}
    IN  {s \in from : \A t \in from : Len(path(s, d)) <= Len(path(t, d))}

\* what is left open when the selected path from home starts with the router
\* itself: the gateway is taken from the first router of the path, or from the
\* router after it on the subnet that the two share
Readings == {"first", "after"}

\* the next router of a router towards d when it leaves from its subnet home, and
\* the subnet (link) on which it is met
next_router(router_id, home, d, reading) ==
    IF reading = "after" /\ path(home, d)[1] = router_id /\ Len(path(home, d)) > 1
    THEN [router |-> path(home, d)[2],
          link |-> CHOOSE s \in Range(attached(router_id)) :
                       /\ s # home
                       /\ InList(s, attached(path(home, d)[2]))]
    ELSE [router |-> path(home, d)[1], link |-> home]

\* the entry for an attached subnet: the router's own address on it, twice
entry_attached(router_id, d) ==
    [gateway |-> get_ip_of_router_on_subnetwork(d, router_id),
     interface |-> get_ip_of_router_on_subnetwork(d, router_id)]

\* the entry of a router for the subnet d, leaving from its attached subnet home
entry(router_id, d, home, reading) ==
    IF InList(d, attached(router_id))
    THEN entry_attached(router_id, d)
    ELSE LET next == next_router(router_id, home, d, reading)
         IN  [gateway |-> get_ip_of_router_on_subnetwork(next.link, next.router),
              interface |-> get_ip_of_router_on_subnetwork(next.link, router_id)]

\* the entry "0.0.0.0/0": towards the master router, on its subnet when the router
\* is attached to it, else as for the subnet of the master router
default_entry(router_id, home, reading) ==
    LET d == attached(master_router)[1]
    IN  IF router_id # master_router /\ InList(d, attached(router_id))
        THEN [gateway |-> get_ip_of_router_on_subnetwork(d, master_router),
              interface |-> get_ip_of_router_on_subnetwork(d, router_id)]
        ELSE entry(router_id, d, home, reading)

\* whether a router has an entry for the subnet d
has_entry(router_id, d) == InList(d, attached(router_id)) \/ homes(router_id, d) # {}

DefaultKey == <<<<0, 0, 0, 0>>, 0>>

\* get_routing_table(router_id): dict of the cidr of a destination -> entry, where
\* home gives the attached subnet taken for each destination
get_routing_table(router_id, home, reading) ==
    LET uids == [i \in 1 .. Len(subnetworks) |-> i - 1]
        dests == SelectSeq(uids, LAMBDA d : has_entry(router_id, d))
        table == [k \in 1 .. Len(dests) |->
                     [key |-> subnetworks[dests[k] + 1].cidr,
                      value |-> entry(router_id, dests[k], home[dests[k]], reading)]]
        d0 == attached(master_router)[1]
    IN  IF has_entry(router_id, d0)
        THEN Append(table, [key |-> DefaultKey,
                            value |-> default_entry(router_id, home[d0], reading)])
        ELSE table

\* the choices of a home subnet per destination that a router has
HomeChoices(router_id) ==
    LET uids == 0 .. Len(subnetworks) - 1
    IN  {h \in [uids -> uids] :
            \A d \in uids :
                IF homes(router_id, d) # {} THEN h[d] \in homes(router_id, d)
                ELSE h[d] = 0}

\* the lists of tables of the first n routers
RECURSIVE Tables(_, _)
Tables(n, reading) ==
    IF n = 0 THEN {<<>>}
    ELSE {Append(t, get_routing_table(n - 1, h, reading)) :
             t \in Tables(n - 1, reading), h \in HomeChoices(n - 1)}

\* "for i in range(len(self.routers)): routing_tables.append(get_routing_table(i))"
get_routing_tables ==
    /\ dpc = "tables"
    /\ \E reading \in Readings : routing_tables' \in Tables(Len(routers), reading)
    /\ stages' = Append(stages, "tables")
    /\ dpc' = "done"
    /\ UNCHANGED <<givenVars, cursor, master_router, ants_options, hops, raised, runs>>
    /\ UNCHANGED <<antsVars, filterVars, builderVars>>

TablesNext ==
    \/ BuildSubnet
    \/ BuildRouter
    \/ BuildLink
    \/ AntsDiscoveryInit
    \/ SweepStart
    \/ AfterSweep
    \/ FindStart
    \/ FindEnd
    \/ filter_paths_from_hops
    \/ get_routing_tables
    \/ Next

SpecTables == InitTables /\ [][TablesNext]_vars

\* the entry of a router for a key, and whether it has one
HasEntry(router_id, key) == HasKey(routing_tables[router_id + 1], key)

Entry(router_id, key) == ValueOf(routing_tables[router_id + 1], key)

TablesBuilt == dpc = "done" /\ Len(routing_tables) = Len(routers)

\* for a subnet d that is not attached to r: the interface is an address of r on
\* one of its subnets, and the gateway the address of another router on that subnet
ViaNeighbour(r, d) ==
    \E s \in Range(attached(r)) :
        /\ Entry(r, subnetworks[d + 1].cidr).interface = get_ip_of_router_on_subnetwork(s, r)
        /\ \E q \in Range(Keys(subnetworks[s + 1].routers)) :
              /\ q # r
              /\ Entry(r, subnetworks[d + 1].cidr).gateway
                    = get_ip_of_router_on_subnetwork(s, q)

LocalDelivery(r, d) ==
    /\ HasEntry(r, subnetworks[d + 1].cidr)
    /\ Entry(r, subnetworks[d + 1].cidr).gateway = get_ip_of_router_on_subnetwork(d, r)
    /\ Entry(r, subnetworks[d + 1].cidr).interface = get_ip_of_router_on_subnetwork(d, r)

EntriesOf(r, P(_, _)) ==
    \A d \in 0 .. Len(subnetworks) - 1 :
        IF InList(d, attached(r)) THEN LocalDelivery(r, d)
        ELSE HasEntry(r, subnetworks[d + 1].cidr) => P(r, d)

NoPreference == ants_options.kind = "dict" /\ ants_options.value.preferred_routers = <<>>

Acting == pc \in {"phase1", "phase2"} /\ idx \in 1 .. Len(ants) /\ ants[idx].state = "Alive"

\* len(subnets) - len(routers) of a history
Ahead(history) == Len(history.subnets) - Len(history.routers)

(***************************************************************************)
(* C31: the history of every ant has as many subnets as routers, or one    *)
(* subnet more, so next_hop_type never raises; an ant that acts in the     *)
(* hop to subnets has as many of each, and an ant that acts in the hop to  *)
(* routers has one subnet more.                                            *)
(***************************************************************************)
C31_HistoryLengths ==
    /\ \A i \in 1 .. Len(ants) :
          /\ Ahead(ants[i].history) \in {0, 1}
          /\ next_hop_type(ants[i].history) # "error"
    /\ (Acting /\ pc = "phase1") => Ahead(ants[idx].history) = 0
    /\ (Acting /\ pc = "phase2") => Ahead(ants[idx].history) = 1

\* in its second round, an ant acts in the hop to routers next to a dead one
C31_Witness ==
    /\ Acting
    /\ pc = "phase2"
    /\ Len(ants[idx].history.routers) >= 2
    /\ \E i \in 1 .. Len(ants) : i # idx /\ ants[i].state = "Dead"

\* a step of a phase in which the treated ant gives birth
Birth == pc \in {"phase1", "phase2"} /\ Len(ants') > Len(ants)

\* the children of a step
Born == {ants'[i] : i \in Len(ants) + 1 .. Len(ants')}

\* what a birth makes of the histories of the parent ants[idx] and of its children
ChildrenExtendParent ==
    Birth =>
        /\ ants'[idx].history = ants[idx].history
        /\ \A child \in Born :
              IF pc = "phase1"
              THEN /\ child.history.routers = ants[idx].history.routers
                   /\ child.history.subnets = Append(ants[idx].history.subnets, child.subnet)
                   /\ InList(child.subnet, subnets_at_pos(ants[idx]))
              ELSE /\ child.history.subnets = ants[idx].history.subnets
                   /\ child.history.routers = Append(ants[idx].history.routers, child.router)
                   /\ InList(child.router, routers_at_pos(ants[idx]))

(***************************************************************************)
(* C32: a child has the history of its parent followed by the node it is   *)
(* born on.  Born in the hop to subnets, it has the routers of its parent  *)
(* and the subnets of its parent followed by the candidate subnet; born in *)
(* the hop to routers, it has the subnets of its parent and the routers of *)
(* its parent followed by the candidate router.  The history of the parent *)
(* is left as it was.                                                      *)
(***************************************************************************)
C32_ChildHistoryExtendsParent == [][ChildrenExtendParent]_vars

\* children of the hop to routers wait, born of a parent that had moved or was
\* itself born of a birth
C32_Witness ==
    /\ pc = "phase2"
    /\ \E i \in 1 .. Len(ants) :
          /\ ants[i].state = "Waiting"
          /\ Len(ants[i].history.routers) >= 2
          /\ Len(ants[i].history.subnets) >= 2

(***************************************************************************)
(* The ceiling of the population of ants, on topologies with many routers  *)
(* on one subnet.                                                          *)
(***************************************************************************)
\* the numbers of routers attached to subnet 0
HubSizes == {2, MaxAnts, MaxAnts + 1}

\* n routers on subnet 0, of which router 0 is also on subnets 1 and 2; two more
\* routers on subnet 1; one more router on subnets 2 and 3
HubLinks(n) ==
    prepare_matrix_and_links(
        <<[i \in 1 .. n |-> i - 1], <<0, n, n + 1>>, <<0, n + 2>>, <<n + 2>>>>,
        [i \in 1 .. n + 3 |->
            IF i = 1 THEN <<0, 1, 2>>
            ELSE IF i <= n THEN <<0>>
            ELSE IF i <= n + 2 THEN <<1>>
            ELSE <<2, 3>>])

\* a discovery run is about to start on one of these topologies
InitCeiling ==
    /\ \E n \in HubSizes : links = HubLinks(n)
    /\ discovery_type \in {"sweep", "find"}
    /\ subnet_start \in DOMAIN links.subnets
    /\ subnet_end \in DOMAIN links.subnets
    /\ IF discovery_type = "find" THEN subnet_start # subnet_end
       ELSE subnet_end = subnet_start
    /\ pc = "init"
    /\ ants = <<>>
    /\ idx = 0
    /\ visited = [subnets |-> <<>>, routers |-> <<>>]
    /\ ants_at_objective = <<>>
    /\ sweep_error = [raised |-> FALSE, total |-> 0]
    /\ rounds = 0
    /\ NoFilterRun /\ NoBuilderRun /\ NoDispatcherRun

SpecCeiling == InitCeiling /\ [][Next]_vars

\* the subnets one router away from a subnet of X, on any adjacency
NextSubnets(X) ==
    X \cup {s \in DOMAIN links.subnets :
               \E t \in X : \E r \in Range(links.subnets[t]) : InList(s, links.routers[r])}

RECURSIVE ReachableSubnets(_)
ReachableSubnets(X) ==
    IF NextSubnets(X) = X THEN X ELSE ReachableSubnets(NextSubnets(X))

\* an adjacency as a successful build gives it, on which a sweep succeeds: the two
\* sides agree, no node is listed twice, every subnet is reached from the start
SweepReachable ==
    /\ \A s \in DOMAIN links.subnets : \A r \in DOMAIN links.routers :
          InList(r, links.subnets[s]) <=> InList(s, links.routers[r])
    /\ \A s \in DOMAIN links.subnets : NoDuplicates(links.subnets[s])
    /\ \A r \in DOMAIN links.routers : NoDuplicates(links.routers[r])
    /\ ReachableSubnets({subnet_start}) = DOMAIN links.subnets

(***************************************************************************)
(* C33: on a topology that a build gives and a sweep reaches, a discovery  *)
(* run never ends on the ceiling of the population of ants, whatever the   *)
(* number of routers attached to a subnet.                                 *)
(***************************************************************************)
C33_CeilingNeverAborts == SweepReachable => pc # "recursion_error"

(***************************************************************************)
(* C34: once the sweep has succeeded, every find of calculate_hops over    *)
(* two distinct subnets returns one path at least, so that no entry of     *)
(* hops that the selection receives is an empty list.                      *)
(***************************************************************************)
C34_EveryFindReturnsAPath ==
    /\ (dpc = "finding" /\ pc = "returned") =>
          /\ subnet_start # subnet_end
          /\ Len(ants_at_objective) >= 1
    /\ dpc \in {"hops", "finding", "filter"} =>
          \A i \in 1 .. Len(hops) :
              /\ hops[i].key[1] # hops[i].key[2]
              /\ Len(hops[i].value) >= 1

\* the selection is about to receive the paths of the six pairs of three subnets,
\* two paths or more for one of them
C34_Witness ==
    /\ dpc = "filter"
    /\ runs.swept = 1
    /\ Len(hops) = 6
    /\ \E i \in 1 .. Len(hops) : Len(hops[i].value) >= 2

\* the simple router paths from s to e on any adjacency: the router sequences of
\* the chains s, r1, s1, ..., rk, e that use no subnet and no router twice
RECURSIVE ChainOn(_, _, _, _, _)
ChainOn(p, i, cur, used, e) ==
    IF i > Len(p) THEN cur = e
    ELSE \E t \in DOMAIN links.subnets \ used :
            /\ InList(p[i], links.subnets[cur])
            /\ InList(p[i], links.subnets[t])
            /\ ChainOn(p, i + 1, t, used \cup {t}, e)

AllSimplePaths(s, e) ==
    {p \in UNION {Orders(T) : T \in SUBSET DOMAIN links.routers} \ {<<>>} :
        ChainOn(p, 1, s, {s}, e)}

\* the paths that a step of a find records
Recorded ==
    {ants_at_objective'[i] : i \in Len(ants_at_objective) + 1 .. Len(ants_at_objective')}

\* a path recorded in round k has k routers
RecordedInRound ==
    (discovery_type = "find" /\ Len(ants_at_objective') > Len(ants_at_objective)) =>
        /\ pc = "phase1"
        /\ rounds' = rounds
        /\ \A p \in Recorded : Len(p) = rounds

\* the recorded paths come in non-decreasing order of length, and the first one is
\* as short as any simple router path of the topology
RecordedShortestFirst ==
    discovery_type = "find" =>
        /\ \A i, j \in 1 .. Len(ants_at_objective) :
              i < j => Len(ants_at_objective[i]) <= Len(ants_at_objective[j])
        /\ Len(ants_at_objective) >= 1 =>
              \A p \in AllSimplePaths(subnet_start, subnet_end) :
                  Len(ants_at_objective[1]) <= Len(p)

(***************************************************************************)
(* C35: a find records its paths in non-decreasing order of their number   *)
(* of routers, a path recorded in round k having k routers, and the first  *)
(* path it records for (s, e) has the least number of routers among all    *)
(* the simple router paths from s to e that the topology holds.            *)
(***************************************************************************)
C35_ShortestPathRecordedFirst == []RecordedShortestFirst /\ [][RecordedInRound]_vars

\* a find has returned two paths, the second recorded a round later and longer than
\* the first
C35_Witness ==
    /\ FindReturned
    /\ Len(ants_at_objective) >= 2
    /\ Len(ants_at_objective[2]) > Len(ants_at_objective[1])
    /\ Cardinality(AllSimplePaths(subnet_start, subnet_end)) >= 2
    /\ \E p \in AllSimplePaths(subnet_start, subnet_end) :
          Len(p) > Len(ants_at_objective[1])


\* router r is in the router map of subnet s with the IP a
InRouterMap(s, r, a) ==
    \E i \in 1 .. Len(subnetworks[s + 1].routers) :
        subnetworks[s + 1].routers[i] = [key |-> r, value |-> a]

\* subnet s is in the subnet map of router r with the IP a
InSubnetMap(r, s, a) ==
    \E i \in 1 .. Len(routers[r + 1].connected_networks) :
        routers[r + 1].connected_networks[i] = [key |-> s, value |-> a]

(***************************************************************************)
(* C36: in every reachable builder state, the states after a failed attach *)
(* call included, router r is in the router map of subnet s with the IP a  *)
(* if and only if subnet s is in the subnet map of router r with the same  *)
(* IP a.                                                                   *)
(***************************************************************************)
C36_AttachmentsSymmetric ==
    \A s \in 0 .. (Len(subnetworks) - 1), r \in 0 .. (Len(routers) - 1),
       a \in AttachAddresses :
        InRouterMap(s, r, a) <=> InSubnetMap(r, s, a)


\* a router name and a subnet name that no create call has stored
UnknownRouterName == "R9"
UnknownSubnetName == "Z"

\* the dicts of an attach call whose keys may name no subnet
AnyLinkEntries == [name : LinkSubnetNames \cup {UnknownSubnetName}, ip : {<<10, 0, 0, 1>>, <<>>}]
AnyLinkMappings ==
    {<<e>> : e \in AnyLinkEntries}
        \cup {m \in AnyLinkEntries \X AnyLinkEntries : m[1].name # m[2].name}

\* connect_router_to_networks with names that may match nothing
ConnectAnyCall ==
    /\ \E router_name \in LinkRouterNames \cup {UnknownRouterName},
          subnets_ips \in AnyLinkMappings :
          connect_router_to_networks(router_name, subnets_ips)
    /\ UNCHANGED <<antsVars, filterVars, dispatcherVars>>

SpecAttachAny == InitAttach /\ [][ConnectAnyCall]_vars

\* the names of the keys of a mapping
KeyNames(subnets_ips) == {subnets_ips[k].name : k \in 1 .. Len(subnets_ips)}

\* what a call may change: the router of that name and the subnets of the keys
ChangesOnlyNamed(router_name, subnets_ips) ==
    /\ \A r \in 1 .. Len(routers) :
          routers[r].name # router_name => routers'[r] = routers[r]
    /\ \A s \in 1 .. Len(subnetworks) :
          subnetworks[s].name \notin KeyNames(subnets_ips)
          => subnetworks'[s] = subnetworks[s]

(***************************************************************************)
(* C37: an attach call changes the attachments of the router of the given  *)
(* name and of the subnets that the keys of the mapping name, and of no    *)
(* other: when the router name or a key matches no router or subnet, no    *)
(* existing router or subnet gains an attachment or an IP through it.      *)
(***************************************************************************)
C37_AttachChangesOnlyNamed ==
    [][\A router_name \in LinkRouterNames \cup {UnknownRouterName},
          subnets_ips \in AnyLinkMappings :
            connect_router_to_networks(router_name, subnets_ips)
            => ChangesOnlyNamed(router_name, subnets_ips)]_vars


\* the candidates of the acting ant: subnets in phase 1, routers in phase 2
Candidates == IF pc = "phase1" THEN subnets_at_pos(ants[idx]) ELSE routers_at_pos(ants[idx])

\* every subnet and router of the history of every ant is in the visited sets
HistoriesVisited ==
    \A i \in 1 .. Len(ants) :
        /\ \A k \in 1 .. Len(ants[i].history.subnets) :
              InList(ants[i].history.subnets[k], visited.subnets)
        /\ \A k \in 1 .. Len(ants[i].history.routers) :
              InList(ants[i].history.routers[k], visited.routers)

\* the check of the acting ant never refuses its only candidate
OnlyCandidateAccepted ==
    (Acting /\ Len(Candidates) = 1)
    => IF discovery_type = "sweep"
       THEN sweep_check_next_move(ants[idx], Candidates[1])
       ELSE find_check_next_move(ants[idx], Candidates[1], subnet_end)[1]

\* the step of a sweep ant that has one candidate: it stays alive, stands on the
\* candidate, has it last in its history, and the candidate is visited
OnlyCandidateTaken ==
    (Acting /\ Len(Candidates) = 1 /\ discovery_type = "sweep")
    => /\ Len(ants') >= idx
       /\ ants'[idx].state = "Alive"
       /\ IF pc = "phase1"
          THEN /\ ants'[idx].subnet = Candidates[1]
               /\ ants'[idx].history.subnets = Append(ants[idx].history.subnets, Candidates[1])
               /\ InList(Candidates[1], visited'.subnets)
          ELSE /\ ants'[idx].router = Candidates[1]
               /\ ants'[idx].history.routers = Append(ants[idx].history.routers, Candidates[1])
               /\ InList(Candidates[1], visited'.routers)

(***************************************************************************)
(* C38: in every reachable state of a run every subnet and router of the   *)
(* history of any ant is in the visited sets of the run, so the check of   *)
(* the next move never refuses the only not yet visited candidate of an    *)
(* ant: the branch that kills an ant on its single candidate is never      *)
(* taken, and a sweep ant with one candidate moves to it and marks it      *)
(* visited.                                                                *)
(***************************************************************************)
C38_OnlyCandidateNeverRefused ==
    [](HistoriesVisited /\ OnlyCandidateAccepted) /\ [][OnlyCandidateTaken]_vars

\* a sweep ant that has moved before stands in phase 2 with one router left
C38_Witness ==
    /\ Acting
    /\ discovery_type = "sweep"
    /\ pc = "phase2"
    /\ Len(Candidates) = 1
    /\ Len(ants[idx].history.routers) >= 2
    /\ Len(visited.subnets) >= 2


\* the number of addresses that the "while True" loop checks from ip on
RECURSIVE probe_length(_, _)
probe_length(subnet_inst, ip) ==
    IF check_ip_availability(subnet_inst, ip_before(ip)) = "IPAlreadyAttributed"
    THEN 1 + probe_length(subnet_inst, ip_before(ip))
    ELSE 1

\* the host addresses of a subnet
Hosts(subnet) == {ip \in AttachAddresses : IpStrictlyInside(ip, subnet)}

\* the loop on a subnet: the address it assigns, <<>> when it raises
Probed(subnet) == probe(subnet, subnet.network_range.end)

(***************************************************************************)
(* C39: the loop that looks for an address to assign ends on every subnet  *)
(* of every reachable builder state, after it has checked at most every    *)
(* host address and the network address: it assigns a host address of the  *)
(* subnet that no router holds on it, or, when every host address of the   *)
(* subnet is held, raises the off-range error at the network address.  It  *)
(* never assigns the network address or an address below it.               *)
(***************************************************************************)
C39_ProbeEndsOnFreeHostOrOffRange ==
    \A s \in 1 .. Len(subnetworks) :
        /\ probe_length(subnetworks[s], subnetworks[s].network_range.end)
              <= Cardinality(Hosts(subnetworks[s])) + 1
        /\ Probed(subnetworks[s]) # <<>> => Probed(subnetworks[s]) \in FreeHosts(subnetworks[s])
        /\ Probed(subnetworks[s]) = <<>> <=> FreeHosts(subnetworks[s]) = {}
        /\ FreeHosts(subnetworks[s]) = {} =>
              probe_length(subnetworks[s], subnetworks[s].network_range.end)
                 = Cardinality(Hosts(subnetworks[s])) + 1
        /\ \A router_name \in LinkRouterNames :
              LET done == connect_entries(subnetworks, routers,
                                          name_to_uid(routers_names, router_name),
                                          <<[name |-> subnetworks[s].name, ip |-> <<>>]>>,
                                          1, FALSE)
              IN  /\ FreeHosts(subnetworks[s]) = {}
                     => /\ done.result = "IPOffNetworkRangeException"
                        /\ done.subnetworks = subnetworks
                        /\ done.routers = routers
                  /\ FreeHosts(subnetworks[s]) # {}
                     => /\ done.result \in {"ok", "Exception"}
                        /\ ValueOf(done.subnetworks[s].routers,
                                   name_to_uid(routers_names, router_name))
                              = Probed(subnetworks[s])
                        /\ IpLess(subnetworks[s].network_range.start,
                                  ValueOf(done.subnetworks[s].routers,
                                          name_to_uid(routers_names, router_name)))

\* both hosts of a subnet are held and an attach call without an IP has just failed
\* with the off-range error
C39_Witness ==
    /\ last_call.op = "connect_router_to_networks"
    /\ last_call.result = "IPOffNetworkRangeException"
    /\ \E s \in 1 .. Len(subnetworks) :
          /\ FreeHosts(subnetworks[s]) = {}
          /\ Len(subnetworks[s].routers) = 2
          /\ Probed(subnetworks[s]) = <<>>

====
